---- MODULE Spec2Model ----
(***************************************************************************)
(* Model of the review-thread and batched-review core of the gh_pr.py CLI  *)
(* (skills/pr-review/scripts/gh_pr.py; skills/pr-creator/scripts/gh_pr.py  *)
(* carries the same find_review_thread_id and resolve).                    *)
(*                                                                         *)
(* Python values are modelled as follows.  Optional[T] is a sequence of    *)
(* length at most one: None is <<>> and the value v is <<v>>.  A dict is a *)
(* function whose DOMAIN is the set of keys present.  The console is the   *)
(* sequence of messages printed, each named by its fixed text.             *)
(***************************************************************************)
EXTENDS Integers, Sequences, FiniteSets, TLC

\* ------------------------------------------------------------- bounds

\* Invocations of `post` started in one behaviour.
MaxPosts == 3
\* Processes that may run `post` (one at a time under SpecPost).
NumProcs == 2

\* Invocations of `resolve` started in one behaviour.
MaxResolves == 2
\* Page queries one thread search may issue before the model stops following it.
MaxQueries == 3
\* The page size of the thread query, reviewThreads(first: 100), scaled down.
ThreadsFirst == 2
\* The comments carried per thread, comments(first: 50), scaled down.
CommentsFirst == 2

\* Invocations of `reply` started in one behaviour.
MaxReplies == 2
\* The longest repository argument, in characters.
MaxRepoLen == 4
\* The most segments a URL is written from.
MaxSegs == 4

Procs == 1..NumProcs

\* ------------------------------------------------------ python values

None == <<>>
Some(v) == <<v>>

\* dict.get(key, default)
Get(d, key, default) == IF key \in DOMAIN d THEN d[key] ELSE default

\* dict.get(key): None when the key is absent
GetOpt(d, key) == IF key \in DOMAIN d THEN Some(d[key]) ELSE None

\* The dict {} (a function with no keys).
EmptyDict == <<>>

\* Truth value of an Optional[bool] and of an Optional[str].
\* Mutant of truthy_bool: an absent value counts as true.
truthy_bool_absent_true(o) == o = None \/ o[1]

truthy_bool(o) == o # None /\ o[1]
\* Mutant of truthy_str: the empty string counts as true.
truthy_str_empty_true(o) == o # None

truthy_str(o) == o # None /\ o[1] # ""

Range(s) == {s[i] : i \in 1..Len(s)}

Min(a, b) == IF a < b THEN a ELSE b

\* ------------------------------------------------------- draft files

\* The keys a draft may carry, each Optional: absent keys are left out of
\* the dict.
DraftDict(c, e, b, cm) ==
    LET field == [k \in {"commit_id", "event", "body", "comments"} |->
                    CASE k = "commit_id" -> c
                      [] k = "event" -> e
                      [] k = "body" -> b
                      [] k = "comments" -> cm]
    IN [k \in {kk \in DOMAIN field : field[kk] # None} |-> field[k][1]]

InlineComment(path, line, body) ==
    [path |-> path, line |-> line, side |-> "RIGHT", body |-> body]

CommentA == InlineComment("x.py", 10, "nit")
CommentB == InlineComment("y.py", 3, "typo")

\* What a draft file may hold: text that is no JSON, or a JSON object.
JsonDrafts ==
    { [kind |-> "json", data |-> DraftDict(c, e, b, cm)] :
        c \in {None, Some("abc123")},
        e \in {None, Some("APPROVE"), Some("REQUEST_CHANGES"),
               Some("COMMENT"), Some("INVALID")},
        b \in {None, Some("LGTM")},
        cm \in {None, Some(<<CommentA, CommentB>>), Some(<<CommentB, CommentA>>)} }

GarbageDraft == [kind |-> "garbage"]

DraftTexts == JsonDrafts \cup {GarbageDraft}

\* Pull numbers a caller may pass.
PullNumbers == {7, 42}

\* ---------------------------------------------------- review threads

\* The review threads of the pull request, in the platform's order, with the
\* database ids of their comments.
ThreadTable ==
    << [id |-> "T1", comments |-> <<11, 12, 13>>],
       [id |-> "T2", comments |-> <<21>>],
       [id |-> "T3", comments |-> <<31, 32>>],
       [id |-> "T4", comments |-> <<41>>],
       [id |-> "T5", comments |-> <<51>>],
       [id |-> "T6", comments |-> <<61, 62>>] >>

\* Selectors a caller may pass to resolve.
CommentIdArgs == {None, Some(12), Some(13), Some(32), Some(41), Some(62), Some(99)}
ThreadIdArgs == {None, Some("T1"), Some("T4"), Some("TX")}

\* -------------------------------------------------------------- state

VARIABLES
    review_file,   \* the draft file at the path: None (no file) or Some(text)
    reviews,       \* reviews the platform has created, in order
    threads,       \* the platform's review threads: [id, comments, isResolved]
    server,        \* how the thread query is answered: "honest" or "arbitrary"
    nposts,        \* invocations of post started so far
    nresolves,     \* invocations of resolve started so far
    last_resolve,  \* the comment id and the target of the latest resolve that
                   \* returned, when it ended without an error (Optional)
    pc,            \* per process: position inside the running command
    command,       \* per process: the command running ("" when idle)
    console,       \* per process: messages printed by this invocation
    exit_code,     \* per process: exit status of the invocation
    pr_number,     \* post: the pull number argument
    review_data,   \* post: the parsed draft (Optional)
    result,        \* post: create_review's response (Optional)
    printed_id,    \* post: the review id printed (Optional)
    inv,           \* post: number of the running invocation
    start_file,    \* post: the file as it was when the invocation began
    calls,         \* post: create_review calls of this invocation
    unlinked,      \* post: this invocation removed the file
    deleted,       \* the removal of the file: None or Some([inv, text])
    comment_id,    \* resolve: --comment-id (Optional)
    thread_id,     \* resolve: --thread-id, then the thread searched (Optional)
    unresolve,     \* resolve: --unresolve
    is_resolved,   \* resolve: the flag the search returned (Optional)
    after,         \* find_review_thread_id: the cursor of the next query
    queries,       \* resolve: the cursors of the page queries issued, in order
    mutations,     \* resolve: the mutation calls issued, in order
    printed_thread,\* resolve: the thread id and state word printed (Optional)
    thread_arg,    \* resolve: --thread-id as the caller passed it
    thread_data,   \* find_review_thread_id: data, the last page response (Optional)
    cursors,       \* resolve: the end cursors of the page responses, in order
    faults,        \* resolve: the network calls that raised, in order
    mutation_result, \* resolve: the mutation's response (Optional)
    replies,       \* the platform's replies to review comments, in order
    nreplies,      \* invocations of reply started so far
    reply_to,      \* reply: comment_id (Optional)
    reply_body,    \* reply: body
    comment,       \* get_pull_number_from_comment: the record fetched (Optional)
    pull_number,   \* reply: pull_number (Optional)
    fetches,       \* reply: the get_review_comment calls, in order
    reply_calls,   \* reply: the create_reply_for_review_comment calls, in order
    repo,          \* parse_repo: the argument, a text
    parse_out,     \* parse_repo: its outcome (Optional)
    url_segs,      \* the segments the URL was written from
    url,           \* extract_pull_number_from_url: the argument (Optional text)
    pull_out       \* extract_pull_number_from_url: its outcome (Optional)

\* The draft file and the platform's reviews.
postShared == <<review_file, reviews, nposts, deleted>>
\* What one invocation of post holds.
postLocal == <<pr_number, review_data, result, printed_id, inv, start_file,
               calls, unlinked>>
\* The platform's threads.
resolveShared == <<threads, server, nresolves, last_resolve>>
\* What one invocation of resolve holds.
resolveLocal == <<comment_id, thread_id, unresolve, is_resolved, after, queries,
                  mutations, printed_thread, thread_arg, thread_data, cursors,
                  faults,
                  mutation_result>>

\* The platform's replies.
replyShared == <<replies, nreplies>>
\* What one invocation of reply holds.
replyLocal == <<reply_to, reply_body, comment, pull_number, fetches, reply_calls>>
\* The arguments and outcomes of the functions on texts.
textVars == <<repo, parse_out, url_segs, url, pull_out>>

postVars == <<postShared, postLocal>>
resolveVars == <<resolveShared, resolveLocal>>
replyVars == <<replyShared, replyLocal>>
restVars == <<replyVars, textVars>>

vars == <<pc, command, console, exit_code, postVars, resolveVars, restVars>>

\* No process runs a command.
InitProcs ==
    /\ pc = [p \in Procs |-> "idle"]
    /\ command = [p \in Procs |-> ""]
    /\ console = [p \in Procs |-> <<>>]
    /\ exit_code = [p \in Procs |-> 0]

InitPostLocal ==
    /\ nposts = 0
    /\ pr_number = [p \in Procs |-> 7]
    /\ review_data = [p \in Procs |-> None]
    /\ result = [p \in Procs |-> None]
    /\ printed_id = [p \in Procs |-> None]
    /\ inv = [p \in Procs |-> 0]
    /\ start_file = [p \in Procs |-> None]
    /\ calls = [p \in Procs |-> <<>>]
    /\ unlinked = [p \in Procs |-> FALSE]
    /\ deleted = None
    /\ reviews = <<>>

InitResolveLocal ==
    /\ nresolves = 0
    /\ last_resolve = None
    /\ comment_id = [p \in Procs |-> None]
    /\ thread_id = [p \in Procs |-> None]
    /\ unresolve = [p \in Procs |-> FALSE]
    /\ is_resolved = [p \in Procs |-> None]
    /\ after = [p \in Procs |-> None]
    /\ queries = [p \in Procs |-> <<>>]
    /\ mutations = [p \in Procs |-> <<>>]
    /\ printed_thread = [p \in Procs |-> None]
    /\ thread_arg = [p \in Procs |-> None]
    /\ thread_data = [p \in Procs |-> None]
    /\ cursors = [p \in Procs |-> <<>>]
    /\ faults = [p \in Procs |-> <<>>]
    /\ mutation_result = [p \in Procs |-> None]

InitReplyLocal ==
    /\ nreplies = 0
    /\ replies = <<>>
    /\ reply_to = [p \in Procs |-> None]
    /\ reply_body = [p \in Procs |-> ""]
    /\ comment = [p \in Procs |-> None]
    /\ pull_number = [p \in Procs |-> None]
    /\ fetches = [p \in Procs |-> <<>>]
    /\ reply_calls = [p \in Procs |-> <<>>]

\* No function on texts has been given an argument.
InitText ==
    /\ repo = <<>>
    /\ parse_out = None
    /\ url_segs = <<>>
    /\ url = None
    /\ pull_out = None

\* The draft file: absent, or holding any of the draft texts.
InitPost ==
    /\ review_file \in {None} \cup {Some(t) : t \in DraftTexts}
    /\ InitPostLocal

\* The threads of the table, each resolved or not.
InitResolve ==
    /\ threads \in { [i \in DOMAIN ThreadTable |->
                        [id |-> ThreadTable[i].id,
                         comments |-> ThreadTable[i].comments,
                         isResolved |-> flags[i]]] :
                     flags \in [DOMAIN ThreadTable -> BOOLEAN] }
    /\ InitResolveLocal

\* ------------------------------------------------------- post: helpers

\* Mutant of json_loads: text that is no JSON is read as a bare draft.
json_loads_lenient(text) ==
    IF text.kind = "json" THEN Some(text.data)
    ELSE Some(DraftDict(Some("abc123"), Some("COMMENT"), None, None))

\* json.loads(review_file.read_text()): the dict, or None for JSONDecodeError.
json_loads(text) == IF text.kind = "json" THEN Some(text.data) ELSE None

\* missing = [f for f in required if f not in review_data]
missing(data) == {f \in {"commit_id", "event"} : f \notin DOMAIN data}

\* Mutant of valid_events: an event outside the three literals is accepted.
valid_events_lax == {"APPROVE", "REQUEST_CHANGES", "COMMENT", "INVALID"}

valid_events == {"APPROVE", "REQUEST_CHANGES", "COMMENT"}

\* Mutant of create_review_args: the inline comments are left out of the call.
create_review_args_no_comments(number, data) ==
    [pull_number |-> number,
     commit_id |-> data["commit_id"],
     body |-> Get(data, "body", ""),
     event |-> data["event"],
     comments |-> <<>>]

\* The arguments of api.pulls.create_review.
create_review_args(number, data) ==
    [pull_number |-> number,
     commit_id |-> data["commit_id"],
     body |-> Get(data, "body", ""),
     event |-> data["event"],
     comments |-> Get(data, "comments", <<>>)]

\* An exit through typer.Exit(1) after printing `messages`.
exit_1(p, messages) ==
    /\ console' = [console EXCEPT ![p] = @ \o messages]
    /\ exit_code' = [exit_code EXCEPT ![p] = 1]
    /\ pc' = [pc EXCEPT ![p] = "done"]

\* An exception nothing catches: the interpreter prints the traceback and
\* exits with status 1.
uncaught(p) == exit_1(p, <<"Traceback">>)

\* Mutant of post_failed: the failure is reported without the retry note.
post_failed_no_note(p) == exit_1(p, <<"Error posting review">>)

\* The except branch of post.
post_failed(p) ==
    exit_1(p, <<"Error posting review", "Review file preserved for retry">>)

\* ------------------------------------------------------- post: actions

\* The command starts: arguments bound, nothing read yet.
\* Mutant of PostBegin: a lock on the draft, held from start to exit.
PostBegin_locked(p) ==
    /\ \A q \in Procs : pc[q] = "idle"
    /\ pc[p] = "idle"
    /\ nposts < MaxPosts
    /\ nposts' = nposts + 1
    /\ inv' = [inv EXCEPT ![p] = nposts + 1]
    /\ \E n \in PullNumbers : pr_number' = [pr_number EXCEPT ![p] = n]
    /\ start_file' = [start_file EXCEPT ![p] = review_file]
    /\ pc' = [pc EXCEPT ![p] = "exists"]
    /\ command' = [command EXCEPT ![p] = "post"]
    /\ review_data' = [review_data EXCEPT ![p] = None]
    /\ result' = [result EXCEPT ![p] = None]
    /\ console' = [console EXCEPT ![p] = <<>>]
    /\ printed_id' = [printed_id EXCEPT ![p] = None]
    /\ exit_code' = [exit_code EXCEPT ![p] = 0]
    /\ calls' = [calls EXCEPT ![p] = <<>>]
    /\ unlinked' = [unlinked EXCEPT ![p] = FALSE]
    /\ UNCHANGED <<review_file, reviews, deleted, resolveVars, restVars>>

\* post is entered: the command takes no lock and looks at no other process.
PostBegin(p) ==
    /\ pc[p] = "idle"
    /\ nposts < MaxPosts
    /\ nposts' = nposts + 1
    /\ inv' = [inv EXCEPT ![p] = nposts + 1]
    /\ \E n \in PullNumbers : pr_number' = [pr_number EXCEPT ![p] = n]
    /\ start_file' = [start_file EXCEPT ![p] = review_file]
    /\ pc' = [pc EXCEPT ![p] = "exists"]
    /\ command' = [command EXCEPT ![p] = "post"]
    /\ review_data' = [review_data EXCEPT ![p] = None]
    /\ result' = [result EXCEPT ![p] = None]
    /\ console' = [console EXCEPT ![p] = <<>>]
    /\ printed_id' = [printed_id EXCEPT ![p] = None]
    /\ exit_code' = [exit_code EXCEPT ![p] = 0]
    /\ calls' = [calls EXCEPT ![p] = <<>>]
    /\ unlinked' = [unlinked EXCEPT ![p] = FALSE]
    /\ UNCHANGED <<review_file, reviews, deleted, resolveVars, restVars>>

\* Invocations run one after another: one starts when no other is running.
PostStart(p) ==
    /\ \A q \in Procs : pc[q] = "idle"
    /\ PostBegin(p)

\* Mutant of PostExists: the existence check is left out.
PostExists_unchecked(p) ==
    /\ pc[p] = "exists"
    /\ pc' = [pc EXCEPT ![p] = "load"]
    /\ UNCHANGED <<console, exit_code>>
    /\ UNCHANGED <<command, postShared, postLocal, resolveVars, restVars>>

\* if not review_file.exists()
PostExists(p) ==
    /\ pc[p] = "exists"
    /\ IF review_file = None
         THEN exit_1(p, <<"Error: Review file not found">>)
         ELSE /\ pc' = [pc EXCEPT ![p] = "load"]
              /\ UNCHANGED <<console, exit_code>>
    /\ UNCHANGED <<command, postShared, postLocal, resolveVars, restVars>>

\* read_text, json.loads and the two validations; no network call so far.
PostLoad(p) ==
    /\ pc[p] = "load"
    /\ IF review_file = None
         THEN \* the file vanished after the existence check: read_text raises
              \* FileNotFoundError
              /\ uncaught(p)
              /\ UNCHANGED review_data
         ELSE LET loaded == json_loads(review_file[1]) IN
              IF loaded = None
                THEN /\ exit_1(p, <<"Error: Invalid JSON in review file">>)
                     /\ UNCHANGED review_data
                ELSE /\ review_data' = [review_data EXCEPT ![p] = loaded]
                     /\ IF missing(loaded[1]) # {}
                          THEN exit_1(p, <<"Error: Missing required fields">>)
                          ELSE IF loaded[1]["event"] \notin valid_events
                                 THEN exit_1(p, <<"Error: Invalid event">>)
                                 ELSE /\ pc' = [pc EXCEPT ![p] = "create_review"]
                                      /\ UNCHANGED <<console, exit_code>>
    /\ UNCHANGED <<command, postShared, pr_number, result, printed_id, inv,
                   start_file, calls, unlinked, resolveVars, restVars>>

\* api.pulls.create_review returned: the platform holds a new review and the
\* success message with the response's id is printed.
create_review_returned(p) ==
    LET args == create_review_args(pr_number[p], review_data[p][1])
        response == [id |-> 900 + Len(reviews) + 1]
    IN /\ calls' = [calls EXCEPT ![p] = Append(@, [args |-> args, ok |-> TRUE])]
       /\ reviews' = Append(reviews, [id |-> response.id, inv |-> inv[p], args |-> args])
       /\ result' = [result EXCEPT ![p] = Some(response)]
       /\ console' = [console EXCEPT ![p] = Append(@, "Review posted successfully")]
       /\ printed_id' = [printed_id EXCEPT ![p] = GetOpt(response, "id")]
       /\ pc' = [pc EXCEPT ![p] = "unlink"]
       /\ UNCHANGED <<review_file, exit_code, unlinked, deleted>>

\* Mutant of create_review_raised: the clean-up runs on failure too.
create_review_raised_unlinks(p) ==
    LET args == create_review_args(pr_number[p], review_data[p][1])
    IN /\ calls' = [calls EXCEPT ![p] = Append(@, [args |-> args, ok |-> FALSE])]
       /\ post_failed(p)
       /\ review_file' = None
       /\ unlinked' = [unlinked EXCEPT ![p] = TRUE]
       /\ deleted' = Some([inv |-> inv[p], text |-> review_file[1]])
       /\ UNCHANGED <<reviews, result, printed_id>>

\* api.pulls.create_review raised: no review was created.
create_review_raised(p) ==
    LET args == create_review_args(pr_number[p], review_data[p][1])
    IN /\ calls' = [calls EXCEPT ![p] = Append(@, [args |-> args, ok |-> FALSE])]
       /\ post_failed(p)
       /\ UNCHANGED <<review_file, reviews, result, printed_id, unlinked, deleted>>

PostCreateReview(p) ==
    /\ pc[p] = "create_review"
    /\ \/ create_review_returned(p)
       \/ create_review_raised(p)
    /\ UNCHANGED <<command, nposts, pr_number, review_data, inv, start_file,
                   resolveVars, restVars>>

\* review_file.unlink() removed the file.
unlink_returned(p) ==
    /\ review_file # None
    /\ review_file' = None
    /\ unlinked' = [unlinked EXCEPT ![p] = TRUE]
    /\ deleted' = Some([inv |-> inv[p], text |-> review_file[1]])
    /\ console' = [console EXCEPT ![p] = Append(@, "Cleaned up review file")]
    /\ pc' = [pc EXCEPT ![p] = "done"]
    /\ UNCHANGED exit_code

\* review_file.unlink() raised (the file is gone, or may not be removed):
\* the same except branch as a failed create_review.
unlink_raised(p) ==
    /\ post_failed(p)
    /\ UNCHANGED <<review_file, unlinked, deleted>>

PostUnlink(p) ==
    /\ pc[p] = "unlink"
    /\ \/ unlink_returned(p)
       \/ unlink_raised(p)
    /\ UNCHANGED <<command, reviews, nposts, pr_number, review_data, result,
                   printed_id, inv, start_file, calls, resolveVars, restVars>>

\* The process ends: nothing of the invocation is kept in the next one.
ReturnLocals(p) ==
    /\ pc[p] = "done"
    /\ pc' = [pc EXCEPT ![p] = "idle"]
    /\ command' = [command EXCEPT ![p] = ""]
    /\ console' = [console EXCEPT ![p] = <<>>]
    /\ exit_code' = [exit_code EXCEPT ![p] = 0]
    /\ pr_number' = [pr_number EXCEPT ![p] = 7]
    /\ review_data' = [review_data EXCEPT ![p] = None]
    /\ result' = [result EXCEPT ![p] = None]
    /\ printed_id' = [printed_id EXCEPT ![p] = None]
    /\ inv' = [inv EXCEPT ![p] = 0]
    /\ start_file' = [start_file EXCEPT ![p] = None]
    /\ calls' = [calls EXCEPT ![p] = <<>>]
    /\ unlinked' = [unlinked EXCEPT ![p] = FALSE]
    /\ comment_id' = [comment_id EXCEPT ![p] = None]
    /\ thread_id' = [thread_id EXCEPT ![p] = None]
    /\ unresolve' = [unresolve EXCEPT ![p] = FALSE]
    /\ is_resolved' = [is_resolved EXCEPT ![p] = None]
    /\ after' = [after EXCEPT ![p] = None]
    /\ queries' = [queries EXCEPT ![p] = <<>>]
    /\ mutations' = [mutations EXCEPT ![p] = <<>>]
    /\ printed_thread' = [printed_thread EXCEPT ![p] = None]
    /\ thread_arg' = [thread_arg EXCEPT ![p] = None]
    /\ thread_data' = [thread_data EXCEPT ![p] = None]
    /\ cursors' = [cursors EXCEPT ![p] = <<>>]
    /\ faults' = [faults EXCEPT ![p] = <<>>]
    /\ mutation_result' = [mutation_result EXCEPT ![p] = None]
    /\ reply_to' = [reply_to EXCEPT ![p] = None]
    /\ reply_body' = [reply_body EXCEPT ![p] = ""]
    /\ comment' = [comment EXCEPT ![p] = None]
    /\ pull_number' = [pull_number EXCEPT ![p] = None]
    /\ fetches' = [fetches EXCEPT ![p] = <<>>]
    /\ reply_calls' = [reply_calls EXCEPT ![p] = <<>>]
    /\ UNCHANGED <<postShared, threads, server, nresolves, replyShared, textVars>>

Return(p) ==
    /\ ReturnLocals(p)
    /\ UNCHANGED last_resolve

\* The return of resolve, with the history of the latest invocation kept: what
\* it was asked, when it was given a comment id and ended without an error.
ResolveReturn(p) ==
    /\ ReturnLocals(p)
    /\ last_resolve' =
          IF exit_code[p] = 0 /\ comment_id[p] # None
            THEN Some([comment_id |-> comment_id[p][1], unresolve |-> unresolve[p]])
            ELSE None

\* ------------------------------------------ find_review_thread_id: server

\* The position a cursor stands for: the number of threads before the page.
CursorOffset(cursor) == IF cursor = None THEN 0 ELSE cursor[1]

SubSeqTo(s, n) == SubSeq(s, 1, Min(n, Len(s)))

\* The platform's answer to the thread query with $after = cursor: up to
\* ThreadsFirst threads after the cursor, each with its id, its flag and its
\* first CommentsFirst comments, and the page info.
ThreadsPage(cursor) ==
    LET offset == CursorOffset(cursor)
        last == Min(offset + ThreadsFirst, Len(threads))
        nodes == [i \in 1..(last - offset) |->
                    [id |-> threads[offset + i].id,
                     isResolved |-> threads[offset + i].isResolved,
                     comments |->
                        [nodes |-> [j \in DOMAIN SubSeqTo(threads[offset + i].comments,
                                                          CommentsFirst) |->
                                      [databaseId |-> threads[offset + i].comments[j]]]]]]
    IN [repository |-> [pullRequest |-> [reviewThreads |->
          [nodes |-> nodes,
           pageInfo |-> [hasNextPage |-> last < Len(threads),
                         endCursor |-> IF last > offset THEN Some(last) ELSE None]]]]]

\* A thread node of a response, with the keys given (each Optional).
ThreadNode(id, flag, comment_ids) ==
    LET field == [k \in {"id", "isResolved", "comments"} |->
                    CASE k = "id" -> id
                      [] k = "isResolved" -> flag
                      [] k = "comments" ->
                           IF comment_ids = None THEN None
                           ELSE Some([nodes |-> [j \in DOMAIN comment_ids[1] |->
                                                   [databaseId |-> comment_ids[1][j]]]])]
    IN [k \in {kk \in DOMAIN field : field[kk] # None} |-> field[k][1]]

\* The thread lists a response of any shape may carry: threads with and
\* without the caller's comments, with the id or the flag left out, with an
\* empty id, without comments.
ArbitraryNodes ==
    { <<>>,
      <<ThreadNode(Some("T2"), Some(FALSE), Some(<<21>>)),
        ThreadNode(Some("T1"), Some(TRUE), Some(<<11, 12>>)),
        ThreadNode(Some("T4"), Some(FALSE), Some(<<12, 41>>))>>,
      <<ThreadNode(None, Some(TRUE), Some(<<32>>)),
        ThreadNode(Some(""), Some(FALSE), Some(<<41>>))>>,
      <<ThreadNode(Some("T6"), None, Some(<<61, 62>>)),
        ThreadNode(Some("T5"), Some(TRUE), None)>> }

\* The page infos such a response may carry (None: no pageInfo key).
ArbitraryPageInfos ==
    { None,
      Some([hasNextPage |-> FALSE, endCursor |-> None]),
      Some([hasNextPage |-> TRUE, endCursor |-> Some(1)]),
      Some([hasNextPage |-> TRUE, endCursor |-> Some(2)]),
      Some([hasNextPage |-> TRUE]) }

\* A server bound to no protocol: any thread list with any page info, or a
\* response without the repository.
ArbitraryResponses ==
    { [repository |-> [pullRequest |-> [reviewThreads |->
         IF info = None THEN [nodes |-> nodes]
         ELSE [nodes |-> nodes, pageInfo |-> info[1]]]]] :
        nodes \in ArbitraryNodes, info \in ArbitraryPageInfos }
    \cup {EmptyDict}

\* The responses the server may give to one page query.
ThreadsResponses(cursor) ==
    IF server = "honest" THEN {ThreadsPage(cursor)} ELSE ArbitraryResponses

\* The end cursor a response carries (None when it carries none).
end_cursor(response) ==
    LET rt == IF "repository" \in DOMAIN response
                THEN response.repository.pullRequest.reviewThreads ELSE EmptyDict
    IN IF "pageInfo" \in DOMAIN rt /\ "endCursor" \in DOMAIN rt.pageInfo
         THEN rt.pageInfo.endCursor ELSE None

\* ------------------------------------------- find_review_thread_id: client

\* data.get("repository", {}).get("pullRequest", {}).get("reviewThreads", {})
review_threads(data) ==
    Get(Get(Get(data, "repository", EmptyDict), "pullRequest", EmptyDict),
        "reviewThreads", EmptyDict)

\* The nested for loops over one page: the positions of the threads holding a
\* comment whose databaseId is the target.
matching(nodes, target) ==
    {i \in DOMAIN nodes :
        \E j \in DOMAIN Get(Get(nodes[i], "comments", EmptyDict), "nodes", <<>>) :
            GetOpt(Get(Get(nodes[i], "comments", EmptyDict), "nodes", <<>>)[j],
                   "databaseId") = Some(target)}

\* The first thread of the page that matches: the loops return at once.
first_match(nodes, target) ==
    CHOOSE i \in matching(nodes, target) : \A k \in matching(nodes, target) : i <= k

\* ---------------------------------------------------- resolve: actions

\* The command starts with its options bound.
ResolveBegin(p) ==
    /\ pc[p] = "idle"
    /\ nresolves < MaxResolves
    /\ nresolves' = nresolves + 1
    /\ \E c \in CommentIdArgs, t \in ThreadIdArgs, u \in BOOLEAN :
         /\ comment_id' = [comment_id EXCEPT ![p] = c]
         /\ thread_id' = [thread_id EXCEPT ![p] = t]
         /\ thread_arg' = [thread_arg EXCEPT ![p] = t]
         /\ unresolve' = [unresolve EXCEPT ![p] = u]
    /\ is_resolved' = [is_resolved EXCEPT ![p] = None]
    /\ after' = [after EXCEPT ![p] = None]
    /\ queries' = [queries EXCEPT ![p] = <<>>]
    /\ mutations' = [mutations EXCEPT ![p] = <<>>]
    /\ printed_thread' = [printed_thread EXCEPT ![p] = None]
    /\ thread_data' = [thread_data EXCEPT ![p] = None]
    /\ cursors' = [cursors EXCEPT ![p] = <<>>]
    /\ faults' = [faults EXCEPT ![p] = <<>>]
    /\ mutation_result' = [mutation_result EXCEPT ![p] = None]
    /\ console' = [console EXCEPT ![p] = <<>>]
    /\ exit_code' = [exit_code EXCEPT ![p] = 0]
    /\ pc' = [pc EXCEPT ![p] = "selector"]
    /\ command' = [command EXCEPT ![p] = "resolve"]
    /\ UNCHANGED <<threads, server, last_resolve, postVars, restVars>>

ResolveStart(p) ==
    /\ \A q \in Procs : pc[q] = "idle"
    /\ ResolveBegin(p)

\* Mutant of ambiguous_selector: only the call with neither is rejected.
ambiguous_selector_neither(c, t) == c = None /\ t = None

\* Exactly one of --comment-id and --thread-id.
ambiguous_selector(c, t) == (c = None /\ t = None) \/ (c # None /\ t # None)

\* The selector check, then the branch on comment_id.
ResolveSelector(p) ==
    /\ pc[p] = "selector"
    /\ IF ambiguous_selector(comment_id[p], thread_id[p])
         THEN exit_1(p, <<"Error: Provide exactly one of --comment-id or --thread-id">>)
         ELSE /\ pc' = [pc EXCEPT ![p] =
                          IF comment_id[p] # None THEN "find" ELSE "check_state"]
              /\ UNCHANGED <<console, exit_code>>
    /\ UNCHANGED <<command, postVars, restVars, resolveVars>>

\* Mutant of next_cursor: the loop asks for the first page again.
next_cursor_restart(page_info) == None

\* after = page_info.get("endCursor")
next_cursor(page_info) == Get(page_info, "endCursor", None)

\* FindQuery without the early return: a match on a page that reports a next
\* page is passed over and the loop goes on to that page.
FindQuery_passes_over(p) ==
    /\ pc[p] = "find"
    /\ Len(queries[p]) < MaxQueries
    /\ queries' = [queries EXCEPT ![p] = Append(@, after[p])]
    /\ \/ /\ uncaught(p)
          /\ faults' = [faults EXCEPT ![p] = Append(@, "search")]
          /\ UNCHANGED <<thread_id, is_resolved, after, thread_data, cursors>>
       \/ \E response \in ThreadsResponses(after[p]) :
            LET nodes == Get(review_threads(response), "nodes", <<>>)
                page_info == Get(review_threads(response), "pageInfo", EmptyDict)
                more == truthy_bool(GetOpt(page_info, "hasNextPage"))
            IN /\ thread_data' = [thread_data EXCEPT ![p] = Some(response)]
               /\ cursors' = [cursors EXCEPT ![p] = Append(@, end_cursor(response))]
               /\ UNCHANGED faults
               /\ IF more
                    THEN /\ after' = [after EXCEPT ![p] = next_cursor(page_info)]
                         /\ UNCHANGED <<thread_id, is_resolved, pc, console,
                                        exit_code>>
                    ELSE /\ IF matching(nodes, comment_id[p][1]) # {}
                              THEN LET thread ==
                                         nodes[first_match(nodes, comment_id[p][1])]
                                   IN /\ thread_id' = [thread_id EXCEPT ![p] =
                                                         GetOpt(thread, "id")]
                                      /\ is_resolved' = [is_resolved EXCEPT ![p] =
                                                           GetOpt(thread, "isResolved")]
                              ELSE /\ thread_id' = [thread_id EXCEPT ![p] = None]
                                   /\ is_resolved' = [is_resolved EXCEPT ![p] = None]
                         /\ pc' = [pc EXCEPT ![p] = "found"]
                         /\ UNCHANGED <<after, console, exit_code>>
    /\ UNCHANGED <<command, postVars, restVars, resolveShared, comment_id, unresolve,
                   mutations, printed_thread, thread_arg, mutation_result>>

\* One turn of the while loop of find_review_thread_id: the page query, the
\* scan of the page, and the return or the move to the next cursor.
FindQuery(p) ==
    /\ pc[p] = "find"
    /\ Len(queries[p]) < MaxQueries
    /\ queries' = [queries EXCEPT ![p] = Append(@, after[p])]
    /\ \/ \* api.graphql raised: find_review_thread_id has no handler, nor has
          \* resolve around the call
          /\ uncaught(p)
          /\ faults' = [faults EXCEPT ![p] = Append(@, "search")]
          /\ UNCHANGED <<thread_id, is_resolved, after, thread_data, cursors>>
       \/ \E response \in ThreadsResponses(after[p]) :
            LET nodes == Get(review_threads(response), "nodes", <<>>)
                page_info == Get(review_threads(response), "pageInfo", EmptyDict)
            IN /\ thread_data' = [thread_data EXCEPT ![p] = Some(response)]
               /\ cursors' = [cursors EXCEPT ![p] = Append(@, end_cursor(response))]
               /\ UNCHANGED faults
               /\ IF matching(nodes, comment_id[p][1]) # {}
                    THEN LET thread == nodes[first_match(nodes, comment_id[p][1])]
                         IN /\ thread_id' = [thread_id EXCEPT ![p] =
                                               GetOpt(thread, "id")]
                            /\ is_resolved' = [is_resolved EXCEPT ![p] =
                                                 GetOpt(thread, "isResolved")]
                            /\ pc' = [pc EXCEPT ![p] = "found"]
                            /\ UNCHANGED <<after, console, exit_code>>
                    ELSE IF ~truthy_bool(GetOpt(page_info, "hasNextPage"))
                           THEN /\ thread_id' = [thread_id EXCEPT ![p] = None]
                                /\ is_resolved' = [is_resolved EXCEPT ![p] = None]
                                /\ pc' = [pc EXCEPT ![p] = "found"]
                                /\ UNCHANGED <<after, console, exit_code>>
                           ELSE /\ after' = [after EXCEPT ![p] =
                                               next_cursor(page_info)]
                                /\ UNCHANGED <<thread_id, is_resolved, pc, console,
                                               exit_code>>
    /\ UNCHANGED <<command, postVars, restVars, resolveShared, comment_id, unresolve,
                   mutations, printed_thread, thread_arg, mutation_result>>

\* if not thread_id, after the search
ResolveFound(p) ==
    /\ pc[p] = "found"
    /\ IF ~truthy_str(thread_id[p])
         THEN exit_1(p, <<"Error: Could not find a review thread">>)
         ELSE /\ pc' = [pc EXCEPT ![p] = "check_state"]
              /\ UNCHANGED <<console, exit_code>>
    /\ UNCHANGED <<command, postVars, restVars, resolveVars>>

\* Mutant of already: the two tests are swapped, so the mutation is skipped
\* when the state differs.
already_swapped(flag, un) ==
    IF flag = None THEN None
    ELSE IF flag[1] /\ un THEN Some("Thread is already resolved")
    ELSE IF ~flag[1] /\ ~un THEN Some("Thread is already unresolved")
    ELSE None

\* Mutant of already: an unknown flag is read as unresolved.
already_unknown_unresolved(flag, un) ==
    IF flag = None
      THEN IF un THEN Some("Thread is already unresolved") ELSE None
    ELSE IF flag[1] /\ ~un THEN Some("Thread is already resolved")
    ELSE IF ~flag[1] /\ un THEN Some("Thread is already unresolved")
    ELSE None

\* The message of the short-circuit, or None when the mutation is needed.
already(flag, un) ==
    IF flag = None THEN None
    ELSE IF flag[1] /\ ~un THEN Some("Thread is already resolved")
    ELSE IF ~flag[1] /\ un THEN Some("Thread is already unresolved")
    ELSE None

\* if is_resolved is not None: return without a mutation when nothing changes
ResolveCheckState(p) ==
    /\ pc[p] = "check_state"
    /\ IF already(is_resolved[p], unresolve[p]) # None
         THEN /\ console' = [console EXCEPT ![p] =
                               Append(@, already(is_resolved[p], unresolve[p])[1])]
              /\ pc' = [pc EXCEPT ![p] = "done"]
         ELSE /\ pc' = [pc EXCEPT ![p] = "mutate"]
              /\ UNCHANGED console
    /\ UNCHANGED <<command, exit_code, postVars, restVars, resolveVars>>

\* Mutant of mutation_name: --unresolve is ignored.
mutation_name_resolve_only(un) == "resolveReviewThread"

mutation_name(un) == IF un THEN "unresolveReviewThread" ELSE "resolveReviewThread"

\* The threads after the platform applied `name` to the thread `id`.
apply_mutation(name, id) ==
    [i \in DOMAIN threads |->
        IF threads[i].id = id
          THEN [threads[i] EXCEPT !.isResolved = (name = "resolveReviewThread")]
          ELSE threads[i]]

\* The answers the platform may give to an applied mutation: the thread as it
\* now is, a payload without the thread, or a null thread.
mutation_responses(name, id) ==
    LET thread == [id |-> id, isResolved |-> (name = "resolveReviewThread")]
    IN { [k \in {name} |-> [thread |-> Some(thread)]],
         [k \in {name} |-> EmptyDict],
         [k \in {name} |-> [thread |-> None]] }

\* The except branch of resolve.
resolve_failed(p) == exit_1(p, <<"Error updating thread resolution">>)

\* The mutation call and the report of its response.
ResolveMutate(p) ==
    LET name == mutation_name(unresolve[p])
        id == thread_id[p][1]
    IN /\ pc[p] = "mutate"
       /\ mutations' = [mutations EXCEPT ![p] =
                          Append(@, [name |-> name, threadId |-> id])]
       /\ \/ \* api.graphql raised: transport error, or no such thread
             /\ resolve_failed(p)
             /\ faults' = [faults EXCEPT ![p] = Append(@, "mutation")]
             /\ UNCHANGED <<threads, printed_thread, mutation_result>>
          \/ /\ \E i \in DOMAIN threads : threads[i].id = id
             /\ threads' = apply_mutation(name, id)
             /\ UNCHANGED faults
             /\ \E response \in mutation_responses(name, id) :
                  LET payload == Get(response, name, EmptyDict)
                      thread == Get(payload, "thread", Some(EmptyDict))
                  IN /\ mutation_result' = [mutation_result EXCEPT ![p] =
                                             Some(response)]
                     /\ IF thread = None
                       THEN \* thread.get on None raises AttributeError
                            /\ resolve_failed(p)
                            /\ UNCHANGED printed_thread
                       ELSE /\ printed_thread' = [printed_thread EXCEPT ![p] =
                                 Some([id |-> Get(thread[1], "id", id),
                                       state |-> IF truthy_bool(GetOpt(thread[1],
                                                                       "isResolved"))
                                                   THEN "resolved" ELSE "unresolved"])]
                            /\ console' = [console EXCEPT ![p] =
                                             Append(@, "Thread is now")]
                            /\ pc' = [pc EXCEPT ![p] = "done"]
                            /\ UNCHANGED exit_code
       /\ UNCHANGED <<command, postVars, restVars, server, nresolves, last_resolve,
                      comment_id, thread_id,
                      unresolve, is_resolved, after, queries, thread_arg,
                      thread_data, cursors>>

NextPost ==
    \E p \in Procs :
        \/ PostStart(p)
        \/ PostExists(p)
        \/ PostLoad(p)
        \/ PostCreateReview(p)
        \/ PostUnlink(p)
        \/ Return(p)

\* post alone: the draft file varies, no review thread is touched.
InitSpecPost ==
    /\ InitProcs
    /\ InitReplyLocal
    /\ InitText
    /\ InitPost
    /\ InitResolveLocal
    /\ threads = <<>>
    /\ server = "honest"

SpecPost == InitSpecPost /\ [][NextPost]_vars

\* post run once by each of several processes on the same draft path: the
\* steps of the invocations interleave, as nothing in post orders them.
NextPostConcurrent ==
    \E p \in Procs :
        \/ PostBegin(p)
        \/ PostExists(p)
        \/ PostLoad(p)
        \/ PostCreateReview(p)
        \/ PostUnlink(p)

\* The drafts of the concurrent runs: two that pass the validations and one
\* that does not parse.
SharedDrafts ==
    { [kind |-> "json",
       data |-> DraftDict(Some("abc123"), Some("COMMENT"), Some("LGTM"), None)],
      [kind |-> "json",
       data |-> DraftDict(Some("abc123"), Some("APPROVE"), None,
                          Some(<<CommentA, CommentB>>))],
      GarbageDraft }

InitSpecPostConcurrent ==
    /\ InitProcs
    /\ InitReplyLocal
    /\ InitText
    /\ review_file \in {Some(t) : t \in SharedDrafts}
    /\ InitPostLocal
    /\ InitResolveLocal
    /\ threads = <<>>
    /\ server = "honest"

SpecPostConcurrent == InitSpecPostConcurrent /\ [][NextPostConcurrent]_vars

NextResolve ==
    \E p \in Procs :
        \/ ResolveStart(p)
        \/ ResolveSelector(p)
        \/ FindQuery(p)
        \/ ResolveFound(p)
        \/ ResolveCheckState(p)
        \/ ResolveMutate(p)
        \/ Return(p)

\* resolve alone: the threads' flags vary, the draft file is absent.
InitSpecResolve ==
    /\ InitProcs
    /\ InitReplyLocal
    /\ InitText
    /\ InitResolve
    /\ server = "honest"
    /\ InitPostLocal
    /\ review_file = None

SpecResolve == InitSpecResolve /\ [][NextResolve]_vars

\* resolve against a server bound to no protocol: the threads start
\* unresolved, every page query may be answered by any response.
InitSpecFind ==
    /\ InitProcs
    /\ InitReplyLocal
    /\ InitText
    /\ threads = [i \in DOMAIN ThreadTable |->
                    [id |-> ThreadTable[i].id,
                     comments |-> ThreadTable[i].comments,
                     isResolved |-> FALSE]]
    /\ InitResolveLocal
    /\ server = "arbitrary"
    /\ InitPostLocal
    /\ review_file = None

SpecFind == InitSpecFind /\ [][NextResolve]_vars

\* resolve, one invocation after another, each knowing what the one before it
\* was asked.
NextResolveAgain ==
    \E p \in Procs :
        \/ ResolveStart(p)
        \/ ResolveSelector(p)
        \/ FindQuery(p)
        \/ ResolveFound(p)
        \/ ResolveCheckState(p)
        \/ ResolveMutate(p)
        \/ ResolveReturn(p)

InitSpecResolveAgain ==
    /\ InitProcs
    /\ InitReplyLocal
    /\ InitText
    /\ InitResolve
    /\ server = "honest"
    /\ InitPostLocal
    /\ review_file = None

SpecResolveAgain == InitSpecResolveAgain /\ [][NextResolveAgain]_vars

\* ----------------------------------------------------------- texts

\* A text is the sequence of its characters.

\* The places of the character sep in the text.
positions(text, sep) == {i \in DOMAIN text : text[i] = sep}

\* The first of a non-empty set of places.
first_of(places) == CHOOSE i \in places : \A k \in places : i <= k

\* Mutant of split: the text is cut at the first separator only, as by
\* split(sep, 1).
split_once(text, sep) ==
    IF positions(text, sep) = {} THEN <<text>>
    ELSE LET i == first_of(positions(text, sep))
         IN <<SubSeq(text, 1, i - 1), SubSeq(text, i + 1, Len(text))>>

RECURSIVE split(_, _)
\* text.split(sep): the pieces between the separators, empty ones included.
split(text, sep) ==
    IF positions(text, sep) = {} THEN <<text>>
    ELSE LET i == first_of(positions(text, sep))
         IN <<SubSeq(text, 1, i - 1)>> \o split(SubSeq(text, i + 1, Len(text)), sep)

RECURSIVE join(_, _)
\* sep.join(parts)
join(parts, sep) ==
    IF parts = <<>> THEN <<>>
    ELSE IF Len(parts) = 1 THEN parts[1]
    ELSE parts[1] \o <<sep>> \o join(Tail(parts), sep)

RECURSIVE Texts(_, _)
\* The texts of at most n characters over an alphabet.
Texts(alphabet, n) ==
    IF n = 0 THEN {<<>>}
    ELSE LET shorter == Texts(alphabet, n - 1)
         IN shorter \cup {Append(t, c) : t \in shorter, c \in alphabet}

\* ------------------------------------------------------- parse_repo

\* The repository arguments followed: two letters and the slash.
RepoArgs == Texts({"o", "n", "/"}, MaxRepoLen)

\* parse_repo(repo): the pair it returns, or the message and the exit status
\* of typer.Exit(1).
parse_repo(text) ==
    LET parts == split(text, "/")
    IN IF Len(parts) # 2
         THEN [returned |-> None,
               console |-> <<"Error: Invalid repo format">>,
               exit_code |-> 1]
         ELSE [returned |-> Some(<<parts[1], parts[2]>>),
               console |-> <<>>,
               exit_code |-> 0]

\* The call of parse_repo on the argument.
ParseRepo ==
    /\ parse_out = None
    /\ parse_out' = Some(parse_repo(repo))
    /\ UNCHANGED <<pc, command, console, exit_code, postVars, resolveVars,
                   replyVars, repo, url_segs, url, pull_out>>

\* -------------------------------------------- extract_pull_number_from_url

DigitChars == <<"0", "1", "2", "3", "4", "5", "6", "7", "8", "9">>

\* part.isdigit(), for the ASCII digits
isdigit(part) ==
    part # <<>> /\ \A i \in DOMAIN part : part[i] \in Range(DigitChars)

digit_value(c) == (CHOOSE i \in DOMAIN DigitChars : DigitChars[i] = c) - 1

RECURSIVE to_int(_)
\* int(part), for a part of digits
to_int(part) ==
    IF part = <<>> THEN 0
    ELSE to_int(SubSeq(part, 1, Len(part) - 1)) * 10 + digit_value(part[Len(part)])

\* urlparse(url).path, for a URL written from its path on: the text before the
\* query and the fragment.
urlparse_path(text) ==
    LET marks == positions(text, "?") \cup positions(text, "#")
    IN IF marks = {} THEN text ELSE SubSeq(text, 1, first_of(marks) - 1)

\* if part, in the comprehension
nonempty(part) == part # <<>>

pulls == <<"p", "u", "l", "l", "s">>

RECURSIVE first_digit_part(_)
\* Mutant of last_digit_part: the parts are scanned from the start.
first_digit_part(parts) ==
    IF parts = <<>> THEN None
    ELSE IF isdigit(parts[1]) THEN Some(to_int(parts[1]))
    ELSE first_digit_part(Tail(parts))

RECURSIVE last_digit_part(_)
\* for part in reversed(parts): if part.isdigit(): return int(part)
last_digit_part(parts) ==
    IF parts = <<>> THEN None
    ELSE IF isdigit(parts[Len(parts)]) THEN Some(to_int(parts[Len(parts)]))
    ELSE last_digit_part(SubSeq(parts, 1, Len(parts) - 1))

\* extract_pull_number_from_url(url), url an Optional text
extract_pull_number_from_url(u) ==
    IF u = None \/ u[1] = <<>> THEN None
    ELSE LET parts == SelectSeq(split(urlparse_path(u[1]), "/"), nonempty)
             idx == first_of({i \in DOMAIN parts : parts[i] = pulls})
         IN IF /\ pulls \in Range(parts)
               /\ idx + 1 <= Len(parts)
               /\ isdigit(parts[idx + 1])
              THEN Some(to_int(parts[idx + 1]))
              ELSE last_digit_part(parts)

\* The segments URLs are written from: empty, "pulls", numbers, a word with a
\* digit in it, a word.
UrlSegments == {<<>>, pulls, <<"4", "2">>, <<"9">>, <<"4", "x">>, <<"p">>}

\* What may follow the path: nothing, a query, a fragment.
UrlTails == {<<>>, <<"?", "7">>, <<"#", "8">>}

\* The lists of at most MaxSegs segments.
SegLists == UNION {[1..n -> UrlSegments] : n \in 0..MaxSegs}

\* The call of extract_pull_number_from_url on the argument.
ExtractPullNumber ==
    /\ pull_out = None
    /\ pull_out' = Some(extract_pull_number_from_url(url))
    /\ UNCHANGED <<pc, command, console, exit_code, postVars, resolveVars,
                   replyVars, repo, parse_out, url_segs, url>>

\* ------------------------------------------------------------ reply

\* URLs of a comment record: of the pull request, of the review, and two with
\* no number in the path.
PullUrl == join(<< <<>>, <<"p">>, pulls, <<"4", "2">> >>, "/")
ReviewUrl == join(<< <<>>, pulls, <<"9">>, <<"p">>, <<"7">> >>, "/")
WordsUrl == join(<< <<>>, <<"p">>, pulls, <<"4", "x">> >>, "/")
QueryUrl == join(<< <<>>, <<"p">>, pulls >>, "/") \o <<"?", "7">>

\* The values a URL field of the record may have: null, "", a URL.
UrlValues == {None, Some(<<>>), Some(PullUrl), Some(ReviewUrl), Some(WordsUrl),
              Some(QueryUrl)}

\* The comment record with the two URL fields as given (None: no such key).
CommentRecord(pr_url, review_url) ==
    LET field == [k \in {"pull_request_url", "pull_request_review_url"} |->
                    IF k = "pull_request_url" THEN pr_url ELSE review_url]
    IN [k \in {kk \in DOMAIN field : field[kk] # None} |-> field[k][1]]

\* The records get_review_comment may return.
CommentRecords ==
    {CommentRecord(a, b) : a, b \in {None} \cup {Some(v) : v \in UrlValues}}

\* The comment ids reply is given.
ReplyTargets == {12, 99}

\* Mutant of py_or: the second operand is preferred.
py_or_second(a, b) == IF b # None /\ b[1] # <<>> THEN b ELSE a

\* a or b, for Optional texts
py_or(a, b) == IF a # None /\ a[1] # <<>> THEN a ELSE b

\* Mutant of comment_pull_number: a record that gives no number counts as
\* pull request 1.
comment_pull_number_guessed(record) ==
    LET number == extract_pull_number_from_url(
                      py_or(Get(record, "pull_request_url", None),
                            Get(record, "pull_request_review_url", None)))
    IN IF number = None THEN Some(1) ELSE number

\* The pull number get_pull_number_from_comment reads off the record.
comment_pull_number(record) ==
    extract_pull_number_from_url(
        py_or(Get(record, "pull_request_url", None),
              Get(record, "pull_request_review_url", None)))

\* The command starts with its arguments bound.
ReplyBegin(p) ==
    /\ pc[p] = "idle"
    /\ nreplies < MaxReplies
    /\ nreplies' = nreplies + 1
    /\ \E target \in ReplyTargets :
         reply_to' = [reply_to EXCEPT ![p] = Some(target)]
    /\ reply_body' = [reply_body EXCEPT ![p] = "Fixed"]
    /\ comment' = [comment EXCEPT ![p] = None]
    /\ pull_number' = [pull_number EXCEPT ![p] = None]
    /\ fetches' = [fetches EXCEPT ![p] = <<>>]
    /\ reply_calls' = [reply_calls EXCEPT ![p] = <<>>]
    /\ console' = [console EXCEPT ![p] = <<>>]
    /\ exit_code' = [exit_code EXCEPT ![p] = 0]
    /\ pc' = [pc EXCEPT ![p] = "get_pull_number"]
    /\ command' = [command EXCEPT ![p] = "reply"]
    /\ UNCHANGED <<replies, postVars, resolveVars, textVars>>

\* One invocation at a time.
ReplyStart ==
    \E p \in Procs :
        /\ \A q \in Procs : pc[q] = "idle"
        /\ ReplyBegin(p)

\* The except branch of reply. It also catches the typer.Exit raised inside
\* get_pull_number_from_comment, which is an Exception.
reply_failed(p, messages) == exit_1(p, messages \o <<"Error posting reply">>)

\* get_pull_number_from_comment(api, comment_id), called in the try of reply.
ReplyGetPullNumber(p) ==
    /\ pc[p] = "get_pull_number"
    /\ fetches' = [fetches EXCEPT ![p] = Append(@, reply_to[p][1])]
    /\ \/ \* get_review_comment raised
          /\ reply_failed(p, <<"Error fetching review comment">>)
          /\ UNCHANGED <<comment, pull_number>>
       \/ \E record \in CommentRecords :
            /\ comment' = [comment EXCEPT ![p] = Some(record)]
            /\ IF comment_pull_number(record) = None
                 THEN /\ reply_failed(p, <<"Error: Could not determine PR number">>)
                      /\ UNCHANGED pull_number
                 ELSE /\ pull_number' = [pull_number EXCEPT ![p] =
                                           comment_pull_number(record)]
                      /\ pc' = [pc EXCEPT ![p] = "create_reply"]
                      /\ UNCHANGED <<console, exit_code>>
    /\ UNCHANGED <<command, replyShared, reply_to, reply_body, reply_calls,
                   postVars, resolveVars, textVars>>

\* api.pulls.create_reply_for_review_comment(...) and the report.
ReplyCreate(p) ==
    LET args == [pull_number |-> pull_number[p][1],
                 comment_id |-> reply_to[p][1],
                 body |-> reply_body[p]]
    IN /\ pc[p] = "create_reply"
       /\ reply_calls' = [reply_calls EXCEPT ![p] = Append(@, args)]
       /\ \/ /\ replies' = Append(replies, args)
             /\ console' = [console EXCEPT ![p] = Append(@, "Reply posted successfully!")]
             /\ pc' = [pc EXCEPT ![p] = "done"]
             /\ UNCHANGED exit_code
          \/ /\ reply_failed(p, <<>>)
             /\ UNCHANGED replies
       /\ UNCHANGED <<command, nreplies, reply_to, reply_body, comment, pull_number,
                      fetches, postVars, resolveVars, textVars>>

\* ------------------------------------------- specifications: texts, reply

NextParseRepo == ParseRepo

\* parse_repo on every argument of RepoArgs.
InitSpecParseRepo ==
    /\ InitProcs
    /\ InitPostLocal
    /\ review_file = None
    /\ InitResolveLocal
    /\ threads = <<>>
    /\ server = "honest"
    /\ InitReplyLocal
    /\ repo \in RepoArgs
    /\ parse_out = None
    /\ url_segs = <<>>
    /\ url = None
    /\ pull_out = None

SpecParseRepo == InitSpecParseRepo /\ [][NextParseRepo]_vars

NextExtract == ExtractPullNumber

\* extract_pull_number_from_url on no URL and on every URL written from a list
\* of SegLists and a tail.
InitSpecExtract ==
    /\ InitProcs
    /\ InitPostLocal
    /\ review_file = None
    /\ InitResolveLocal
    /\ threads = <<>>
    /\ server = "honest"
    /\ InitReplyLocal
    /\ repo = <<>>
    /\ parse_out = None
    /\ url_segs \in SegLists
    /\ url \in {Some(join(url_segs, "/") \o tail) : tail \in UrlTails}
                 \cup (IF url_segs = <<>> THEN {None} ELSE {})
    /\ pull_out = None

SpecExtract == InitSpecExtract /\ [][NextExtract]_vars

NextReply ==
    \/ ReplyStart
    \/ \E p \in Procs : ReplyGetPullNumber(p)
    \/ \E p \in Procs : ReplyCreate(p)
    \/ \E p \in Procs : Return(p)

\* reply, one invocation at a time.
InitSpecReply ==
    /\ InitProcs
    /\ InitPostLocal
    /\ review_file = None
    /\ InitResolveLocal
    /\ threads = <<>>
    /\ server = "honest"
    /\ InitReplyLocal
    /\ InitText

SpecReply == InitSpecReply /\ [][NextReply]_vars

\* ------------------------------------------------------- init_review

\* What api.pulls.get may return for the pull request: with no head, a null
\* head, a head with no sha, a null sha, an empty sha, a sha.
HeadResponses ==
    { EmptyDict,
      [head |-> None],
      [head |-> Some(EmptyDict)],
      [head |-> Some([sha |-> None])],
      [head |-> Some([sha |-> Some("")])],
      [head |-> Some([sha |-> Some("abc123")])] }

\* Mutant of init_review_data: the draft is written without its event.
init_review_data_no_event(owner, repo_name, number, commit_id) ==
    [owner |-> owner, repo |-> repo_name, pr_number |-> number,
     commit_id |-> commit_id, body |-> "", comments |-> <<>>]

\* review_data = {...} of init_review
init_review_data(owner, repo_name, number, commit_id) ==
    [owner |-> owner, repo |-> repo_name, pr_number |-> number,
     commit_id |-> commit_id, body |-> "", event |-> "COMMENT",
     comments |-> <<>>]

\* json.dumps(review_data, indent=2): the text of a JSON object.
json_dumps(data) == [kind |-> "json", data |-> data]

\* The command starts with its arguments bound; the output path is the path
\* of the draft.
InitReviewBegin(p) ==
    /\ pc[p] = "idle"
    /\ \E n \in PullNumbers : pr_number' = [pr_number EXCEPT ![p] = n]
    /\ start_file' = [start_file EXCEPT ![p] = review_file]
    /\ pc' = [pc EXCEPT ![p] = "init_review"]
    /\ command' = [command EXCEPT ![p] = "init_review"]
    /\ review_data' = [review_data EXCEPT ![p] = None]
    /\ console' = [console EXCEPT ![p] = <<>>]
    /\ exit_code' = [exit_code EXCEPT ![p] = 0]
    /\ UNCHANGED <<postShared, result, printed_id, inv, calls, unlinked,
                   resolveVars, restVars>>

\* Invocations run one after another.
InitReviewStart(p) ==
    /\ \A q \in Procs : pc[q] = "idle"
    /\ InitReviewBegin(p)

\* api.pulls.get, the test of the head SHA, and the write of the draft.
InitReview(p) ==
    /\ pc[p] = "init_review"
    /\ \/ \* api.pulls.get raised: nothing catches it
          /\ uncaught(p)
          /\ UNCHANGED <<review_file, review_data>>
       \/ \E pr \in HeadResponses :
            LET head == Get(pr, "head", Some(EmptyDict)) IN
            IF head = None
              THEN \* .get on None raises AttributeError
                   /\ uncaught(p)
                   /\ UNCHANGED <<review_file, review_data>>
              ELSE LET commit_id == Get(head[1], "sha", Some("")) IN
                   IF ~truthy_str(commit_id)
                     THEN /\ exit_1(p, <<"Error: Could not get head commit SHA">>)
                          /\ UNCHANGED <<review_file, review_data>>
                     ELSE LET data == init_review_data("o", "n", pr_number[p],
                                                       commit_id[1])
                          IN /\ review_data' = [review_data EXCEPT ![p] = Some(data)]
                             /\ \/ /\ review_file' = Some(json_dumps(data))
                                   /\ console' = [console EXCEPT ![p] =
                                                    Append(@, "Created review file")]
                                   /\ pc' = [pc EXCEPT ![p] = "done"]
                                   /\ UNCHANGED exit_code
                                \/ \* the path cannot be opened for writing
                                   /\ uncaught(p)
                                   /\ UNCHANGED review_file
    /\ UNCHANGED <<command, reviews, nposts, deleted, pr_number, result,
                   printed_id, inv, start_file, calls, unlinked, resolveVars,
                   restVars>>

\* init_review and post on one draft path, one invocation after another.
NextInitReview ==
    \E p \in Procs :
        \/ InitReviewStart(p)
        \/ InitReview(p)
        \/ PostStart(p)
        \/ PostExists(p)
        \/ PostLoad(p)
        \/ PostCreateReview(p)
        \/ PostUnlink(p)
        \/ Return(p)

\* The path holds no file, or one left by an earlier use.
InitSpecInitReview ==
    /\ InitProcs
    /\ InitReplyLocal
    /\ InitText
    /\ review_file \in {None} \cup {Some(t) : t \in SharedDrafts}
    /\ InitPostLocal
    /\ InitResolveLocal
    /\ threads = <<>>
    /\ server = "honest"

SpecInitReview == InitSpecInitReview /\ [][NextInitReview]_vars

\* ------------------------------------ the copy in pr-creator/scripts/gh_pr.py

\* extract_pull_number_from_url(url) of the copy, url an Optional text
creator_extract_pull_number_from_url(u) ==
    IF u = None \/ Len(u[1]) = 0 THEN None
    ELSE LET path == urlparse_path(u[1])
             parts == SelectSeq(split(path, "/"), nonempty)
             at == {i \in DOMAIN parts : parts[i] = pulls}
             idx == CHOOSE i \in at : \A k \in at : i <= k
             digits == {i \in DOMAIN parts : isdigit(parts[i])}
         IN IF at # {} /\ idx < Len(parts) /\ isdigit(parts[idx + 1])
              THEN Some(to_int(parts[idx + 1]))
            ELSE IF digits = {} THEN None
            ELSE Some(to_int(parts[CHOOSE i \in digits : \A k \in digits : k <= i]))

\* get_pull_number_from_comment of the copy, after the record was fetched:
\* the number returned, or the error it ends with.
creator_get_pull_number_from_comment(record) ==
    LET first == Get(record, "pull_request_url", None)
        second == Get(record, "pull_request_review_url", None)
        chosen == IF first = None \/ first[1] = <<>> THEN second ELSE first
        pull == creator_extract_pull_number_from_url(chosen)
    IN IF pull = None
         THEN [pull_number |-> None,
               console |-> <<"Error: Could not determine PR number">>,
               exit_code |-> 1]
         ELSE [pull_number |-> pull, console |-> <<>>, exit_code |-> 0]

\* One pass of the while loop of the copy's find_review_thread_id over the
\* response to its query: the pair returned, or the cursor of the next query.
creator_find_review_thread_id(data, target) ==
    LET review == Get(Get(Get(data, "repository", EmptyDict),
                          "pullRequest", EmptyDict), "reviewThreads", EmptyDict)
        nodes == Get(review, "nodes", <<>>)
        comments_of(i) == Get(Get(nodes[i], "comments", EmptyDict), "nodes", <<>>)
        hits == {i \in DOMAIN nodes :
                   \E j \in DOMAIN comments_of(i) :
                       GetOpt(comments_of(i)[j], "databaseId") = Some(target)}
        thread == nodes[CHOOSE i \in hits : \A k \in hits : i <= k]
        page_info == Get(review, "pageInfo", EmptyDict)
        has_next == GetOpt(page_info, "hasNextPage")
    IN IF hits # {}
         THEN [returned |-> TRUE, thread_id |-> GetOpt(thread, "id"),
               is_resolved |-> GetOpt(thread, "isResolved"), after |-> None]
       ELSE IF has_next = None \/ ~has_next[1]
         THEN [returned |-> TRUE, thread_id |-> None, is_resolved |-> None,
               after |-> None]
       ELSE [returned |-> FALSE, thread_id |-> None, is_resolved |-> None,
             after |-> Get(page_info, "endCursor", None)]

\* resolve of the copy up to its mutation call, given the options and, in
\* comment-id mode, the pair its search returned: how it ends, or the
\* mutation it issues.
creator_resolve(c, t, un, found_id, found_flag) ==
    LET id == IF c # None THEN found_id ELSE t
        flag == IF c # None THEN found_flag ELSE None
        ended(messages, code) ==
            [ended |-> TRUE, console |-> messages, exit_code |-> code,
             mutations |-> <<>>]
    IN IF (c = None /\ t = None) \/ (c # None /\ t # None)
         THEN ended(<<"Error: Provide exactly one of --comment-id or --thread-id">>, 1)
       ELSE IF c # None /\ (id = None \/ id[1] = "")
         THEN ended(<<"Error: Could not find a review thread">>, 1)
       ELSE IF flag # None /\ flag[1] /\ ~un
         THEN ended(<<"Thread is already resolved">>, 0)
       ELSE IF flag # None /\ ~flag[1] /\ un
         THEN ended(<<"Thread is already unresolved">>, 0)
       ELSE [ended |-> FALSE, console |-> <<>>, exit_code |-> 0,
             mutations |-> <<[name |-> IF un THEN "unresolveReviewThread"
                                             ELSE "resolveReviewThread",
                              threadId |-> id[1]]>>]

\* The try of the copy's resolve on the response to its mutation: what it
\* prints, or the except branch.
creator_resolve_report(un, id, response) ==
    LET name == IF un THEN "unresolveReviewThread" ELSE "resolveReviewThread"
        payload == Get(response, name, EmptyDict)
        thread == Get(payload, "thread", Some(EmptyDict))
        flag == IF thread = None THEN None ELSE GetOpt(thread[1], "isResolved")
    IN IF thread = None
         THEN [console |-> <<"Error updating thread resolution">>,
               exit_code |-> 1, printed |-> None]
         ELSE [console |-> <<"Thread is now">>, exit_code |-> 0,
               printed |-> Some([id |-> Get(thread[1], "id", id),
                                 state |-> IF flag # None /\ flag[1]
                                             THEN "resolved" ELSE "unresolved"])]

\* reply in a run of replies: the two commands share no state, so a run
\* calls one of them.
ReplyStartAlone ==
    /\ nresolves = 0
    /\ ReplyStart

\* resolve in a run of resolves.
ResolveStartAlone(p) ==
    /\ nreplies = 0
    /\ ResolveStart(p)

\* resolve or reply, one invocation at a time: the commands through which
\* the functions that the two files share are called.
NextCopies ==
    \/ ReplyStartAlone
    \/ \E p \in Procs :
          \/ ReplyGetPullNumber(p)
          \/ ReplyCreate(p)
          \/ ResolveStartAlone(p)
          \/ ResolveSelector(p)
          \/ FindQuery(p)
          \/ ResolveFound(p)
          \/ ResolveCheckState(p)
          \/ ResolveMutate(p)
          \/ Return(p)

InitSpecCopies ==
    /\ InitProcs
    /\ InitReplyLocal
    /\ InitText
    /\ threads = [i \in DOMAIN ThreadTable |->
                    [id |-> ThreadTable[i].id,
                     comments |-> ThreadTable[i].comments,
                     isResolved |-> FALSE]]
    /\ InitResolveLocal
    /\ server \in {"honest", "arbitrary"}
    /\ InitPostLocal
    /\ review_file = None

SpecCopies == InitSpecCopies /\ [][NextCopies]_vars

\* ------------------------------------------------------------ claims

\* A process at the end of an invocation of post, before it returns.
PostDone(p) == command[p] = "post" /\ pc[p] = "done"

\* The invocation's create_review call returned.
CallReturned(p) == \E i \in DOMAIN calls[p] : calls[p][i].ok

\* The invocation's create_review call raised.
CallRaised(p) == \E i \in DOMAIN calls[p] : ~calls[p][i].ok

\* The arguments of a call carry the content of the draft text.
Carries(args, text) ==
    /\ text.kind = "json"
    /\ {"commit_id", "event"} \subseteq DOMAIN text.data
    /\ args.commit_id = text.data["commit_id"]
    /\ args.event = text.data["event"]
    /\ args.body = IF "body" \in DOMAIN text.data THEN text.data["body"] ELSE ""
    /\ args.comments = IF "comments" \in DOMAIN text.data
                         THEN text.data["comments"] ELSE <<>>

\* The file held a draft that passes the validation.
ValidDraft(file) ==
    /\ file # None
    /\ file[1].kind = "json"
    /\ {"commit_id", "event"} \subseteq DOMAIN file[1].data
    /\ file[1].data["event"] \in {"APPROVE", "REQUEST_CHANGES", "COMMENT"}

\* The file held a JSON draft that fails the validation.
InvalidDraft(file) ==
    /\ file # None
    /\ file[1].kind = "json"
    /\ ~ValidDraft(file)

\* C1: over any sequence of post invocations run one after another on the
\* same draft file, whatever create_review and the file deletion do, the
\* platform holds at most one review created from the draft: no two reviews
\* carry the same submission.  (Under SpecPost the file is never written, so
\* every review comes from the one draft.)
C1_AtMostOneReviewPerDraft ==
    \A i, j \in DOMAIN reviews : reviews[i].args = reviews[j].args => i = j

\* C2: a submission is never silently lost.  The invocation that removed the
\* draft made, before that, a create_review call that carried the draft's
\* content and returned; the platform holds the review of that invocation;
\* and an invocation in which no call returned (file missing, no JSON,
\* validation failure, transport failure) leaves the file as it found it.
C2_DeletedOnlyAfterSuccess ==
    /\ \A p \in Procs :
         unlinked[p] =>
            /\ start_file[p] # None
            /\ \E i \in DOMAIN calls[p] :
                  calls[p][i].ok /\ Carries(calls[p][i].args, start_file[p][1])
    /\ deleted # None =>
         /\ review_file = None
         /\ \E i \in DOMAIN reviews :
               /\ reviews[i].inv = deleted[1].inv
               /\ Carries(reviews[i].args, deleted[1].text)
    /\ \A p \in Procs :
         command[p] = "post" /\ ~CallReturned(p) => review_file = start_file[p]

C2_Witness == \E p \in Procs : PostDone(p) /\ unlinked[p] /\ review_file = None

\* C3: when the draft is valid and create_review returns, the invocation ends
\* with the draft file deleted and the response's review id reported as a
\* success, exit status 0.
C3_SuccessDeletesAndReports ==
    \A p \in Procs :
        PostDone(p) /\ ValidDraft(start_file[p]) /\ CallReturned(p) =>
            /\ review_file = None
            /\ exit_code[p] = 0
            /\ result[p] # None
            /\ printed_id[p] = Some(result[p][1].id)
            /\ "Review posted successfully" \in Range(console[p])

\* C4: when create_review raises, the draft file exists afterwards with the
\* content it had before the invocation, the exit status is 1, and the output
\* says that the review file is preserved for retry.
C4_FailurePreservesDraft ==
    \A p \in Procs :
        PostDone(p) /\ CallRaised(p) =>
            /\ review_file # None
            /\ review_file = start_file[p]
            /\ exit_code[p] = 1
            /\ "Review file preserved for retry" \in Range(console[p])
            /\ "Error posting review" \in Range(console[p])

C4_Witness == \E p \in Procs : PostDone(p) /\ CallRaised(p)

\* C5: a draft that lacks commit_id or event, or whose event is none of
\* APPROVE, REQUEST_CHANGES, COMMENT, is rejected before any network call:
\* the invalid-review error is the only output, the exit status is 1, no
\* create_review call was issued and the file is unchanged.
C5_InvalidDraftRejected ==
    \A p \in Procs :
        command[p] = "post" /\ InvalidDraft(start_file[p]) =>
            /\ calls[p] = <<>>
            /\ review_file = start_file[p]
            /\ \A i \in DOMAIN reviews : reviews[i].inv # inv[p]
            /\ pc[p] \notin {"create_review", "unlink"}
            /\ pc[p] = "done" =>
                 /\ exit_code[p] = 1
                 /\ console[p] =
                      IF {"commit_id", "event"} \subseteq DOMAIN start_file[p][1].data
                        THEN <<"Error: Invalid event">>
                        ELSE <<"Error: Missing required fields">>

C5_Witness ==
    \E p \in Procs :
        /\ PostDone(p) /\ InvalidDraft(start_file[p])
        /\ {"commit_id", "event"} \subseteq DOMAIN start_file[p][1].data
        /\ start_file[p][1].data["event"] = "INVALID"

\* C6: an invocation whose draft passes validation issues exactly one
\* create_review call, and the call carries the caller's pull number and the
\* draft's commit_id, event, body ("" without one) and comments in the
\* draft's order (the empty list without any).
C6_ExactlyOneFullCall ==
    \A p \in Procs :
        command[p] = "post" =>
            /\ Len(calls[p]) <= 1
            /\ PostDone(p) /\ ValidDraft(start_file[p]) =>
                 /\ Len(calls[p]) = 1
                 /\ calls[p][1].args.pull_number = pr_number[p]
                 /\ Carries(calls[p][1].args, start_file[p][1])

C6_Witness ==
    \E p \in Procs :
        /\ PostDone(p) /\ ValidDraft(start_file[p])
        /\ Len(calls[p]) = 1
        /\ calls[p][1].args.comments = <<CommentB, CommentA>>
        /\ calls[p][1].args.body = ""

\* C7: an invocation that begins when the draft is gone (after an earlier
\* invocation submitted and deleted it) fails with the file-not-found error,
\* exit status 1, and issues no create_review call: no review is added.
C7_RerunAfterDeleteFails ==
    \A p \in Procs :
        command[p] = "post" /\ start_file[p] = None =>
            /\ calls[p] = <<>>
            /\ \A i \in DOMAIN reviews : reviews[i].inv # inv[p]
            /\ pc[p] \in {"exists", "done"}
            /\ pc[p] = "done" =>
                 /\ exit_code[p] = 1
                 /\ console[p] = <<"Error: Review file not found">>

C7_Witness ==
    \E p \in Procs :
        /\ PostDone(p) /\ start_file[p] = None
        /\ deleted # None /\ deleted[1].inv < inv[p]
        /\ Len(reviews) = 1

\* A process at the end of an invocation of resolve, before it returns.
ResolveDone(p) == command[p] = "resolve" /\ pc[p] = "done"

\* The caller gave exactly one selector.
OneSelector(p) ==
    \/ comment_id[p] # None /\ thread_arg[p] = None
    \/ comment_id[p] = None /\ thread_arg[p] # None

\* Comment-id mode, and the search returned a thread with its flag.
ThreadFound(p) ==
    /\ comment_id[p] # None /\ thread_arg[p] = None
    /\ thread_id[p] # None /\ thread_id[p] # Some("")
    /\ is_resolved[p] # None

\* The state the caller asks for.
TargetResolved(p) == ~unresolve[p]

\* C8: in comment-id mode, when the thread found for the comment already has
\* the requested state, resolve issues no mutation call, reports that the
\* thread is already in that state and ends without an error.
C8_AlreadyInStateNoMutation ==
    \A p \in Procs :
        command[p] = "resolve" /\ ThreadFound(p)
          /\ is_resolved[p] = Some(TargetResolved(p)) =>
            /\ mutations[p] = <<>>
            /\ pc[p] # "mutate"
            /\ exit_code[p] = 0
            /\ pc[p] = "done" =>
                 console[p] = IF unresolve[p]
                                THEN <<"Thread is already unresolved">>
                                ELSE <<"Thread is already resolved">>

C8_Witness ==
    \E p \in Procs :
        /\ ResolveDone(p) /\ ThreadFound(p)
        /\ unresolve[p] /\ is_resolved[p] = Some(FALSE)
        /\ \E i \in DOMAIN threads :
              threads[i].id = thread_id[p][1] /\ ~threads[i].isResolved

\* C9: an invocation issues at most one mutation call, named by the target
\* alone (resolveReviewThread without --unresolve, unresolveReviewThread with
\* it); and an invocation that has its thread id (given, or found by the
\* search) and does not short-circuit ends having issued exactly one, on that
\* thread.
C9_OneMutationByTarget ==
    \A p \in Procs :
        command[p] = "resolve" =>
            /\ Len(mutations[p]) <= 1
            /\ \A i \in DOMAIN mutations[p] :
                  mutations[p][i].name = IF unresolve[p] THEN "unresolveReviewThread"
                                                         ELSE "resolveReviewThread"
            /\ ( /\ pc[p] = "done"
                 /\ OneSelector(p)
                 /\ comment_id[p] # None => ThreadFound(p)
                 /\ is_resolved[p] # Some(TargetResolved(p)) )
               => /\ Len(mutations[p]) = 1
                  /\ mutations[p][1].threadId = thread_id[p][1]

\* An unresolve request on a thread found resolved: one unresolve mutation.
C9_Witness ==
    \E p \in Procs :
        /\ ResolveDone(p) /\ ThreadFound(p)
        /\ unresolve[p] /\ is_resolved[p] = Some(TRUE)
        /\ mutations[p] = <<[name |-> "unresolveReviewThread",
                             threadId |-> thread_id[p][1]]>>
        /\ exit_code[p] = 0

\* C10: resolve called with both a comment id and a thread id, or with
\* neither, fails with the ambiguous-selector error, exit status 1, having
\* issued no thread-search query and no mutation.
C10_AmbiguousSelectorRejected ==
    \A p \in Procs :
        command[p] = "resolve" /\ ~OneSelector(p) =>
            /\ queries[p] = <<>>
            /\ mutations[p] = <<>>
            /\ pc[p] \in {"selector", "done"}
            /\ pc[p] = "done" =>
                 /\ exit_code[p] = 1
                 /\ console[p] =
                      <<"Error: Provide exactly one of --comment-id or --thread-id">>

C10_Witness ==
    \E p \in Procs :
        /\ ResolveDone(p)
        /\ comment_id[p] # None /\ thread_arg[p] # None

\* ------------------------------------------------- claims: the search

\* The comments of thread i the query returns: its first CommentsFirst.
visible_comments(i) == Range(SubSeqTo(threads[i].comments, CommentsFirst))

\* The positions, in the platform's list, of the threads showing the comment.
holders(target) == {i \in DOMAIN threads : target \in visible_comments(i)}

\* The first of them.
first_holder(target) ==
    CHOOSE i \in holders(target) : \A k \in holders(target) : i <= k

\* The page, counted from one, that carries the thread at position i.
page_of(i) == ((i - 1) \div ThreadsFirst) + 1

\* The number of pages of the platform's list (one when it is empty).
page_count ==
    IF threads = <<>> THEN 1 ELSE page_of(Len(threads))

\* After the search returned, before resolve acts on its result.
SearchReturned(p) ==
    command[p] = "resolve" /\ pc[p] = "found" /\ comment_id[p] # None

\* C11: when the target comment first appears in a thread on page k of the
\* platform's list, the search returns that thread's id and resolved flag after
\* exactly k page queries; no later page is asked for, whether or not page k
\* reports a next page.
C11_StopsAtFirstMatch ==
    \A p \in Procs :
        SearchReturned(p) /\ holders(comment_id[p][1]) # {} =>
            LET i == first_holder(comment_id[p][1])
            IN /\ thread_id[p] = Some(threads[i].id)
               /\ is_resolved[p] = Some(threads[i].isResolved)
               /\ Len(queries[p]) = page_of(i)

\* A search that found its thread on the second page, a page that reported a
\* next page.
C11_Witness ==
    \E p \in Procs :
        /\ SearchReturned(p)
        /\ holders(comment_id[p][1]) # {}
        /\ Len(queries[p]) = 2
        /\ page_of(first_holder(comment_id[p][1])) = 2
        /\ page_count > 2
        /\ thread_id[p] # None

\* The thread list of a page response, empty when the response has none.
page_threads(response) ==
    IF "repository" \in DOMAIN response
       /\ "nodes" \in DOMAIN response.repository.pullRequest.reviewThreads
      THEN response.repository.pullRequest.reviewThreads.nodes
      ELSE <<>>

\* Some thread of the page lists the comment.
page_holds(response, target) ==
    \E i \in DOMAIN page_threads(response) :
        /\ "comments" \in DOMAIN page_threads(response)[i]
        /\ \E j \in DOMAIN page_threads(response)[i].comments.nodes :
              page_threads(response)[i].comments.nodes[j].databaseId = target

\* The page says another page follows.
page_reports_next(response) ==
    /\ "repository" \in DOMAIN response
    /\ "pageInfo" \in DOMAIN response.repository.pullRequest.reviewThreads
    /\ response.repository.pullRequest.reviewThreads.pageInfo.hasNextPage

\* A search of process p has received at least one page.
PageReceived(p) ==
    command[p] = "resolve" /\ comment_id[p] # None /\ thread_data[p] # None

\* C12: the loop goes past a page only when the page holds no thread with the
\* target and reports a next page; on a page that holds none and reports no
\* next page, or carries no page info, the search ends and returns
\* (None, None) as a value, with no message and no error.
C12_AbsenceReturnsNone ==
    \A p \in Procs :
        PageReceived(p) =>
            /\ pc[p] = "find" /\ faults[p] = <<>> =>
                  /\ ~page_holds(thread_data[p][1], comment_id[p][1])
                  /\ page_reports_next(thread_data[p][1])
            /\ ( /\ ~page_holds(thread_data[p][1], comment_id[p][1])
                 /\ ~page_reports_next(thread_data[p][1]) ) =>
                  /\ pc[p] # "find"
                  /\ pc[p] = "found" =>
                        /\ thread_id[p] = None
                        /\ is_resolved[p] = None
                        /\ console[p] = <<>>
                        /\ exit_code[p] = 0

\* A search that ended with (None, None) on a second page that carries threads
\* without the target and no page info.
C12_Witness ==
    \E p \in Procs :
        /\ PageReceived(p)
        /\ pc[p] = "found"
        /\ Len(queries[p]) = 2
        /\ page_threads(thread_data[p][1]) # <<>>
        /\ ~page_holds(thread_data[p][1], comment_id[p][1])
        /\ "repository" \in DOMAIN thread_data[p][1]
        /\ "pageInfo" \notin
              DOMAIN thread_data[p][1].repository.pullRequest.reviewThreads
        /\ thread_id[p] = None
        /\ is_resolved[p] = None

\* C13: the first page query of an invocation carries no cursor, every later
\* one carries the end cursor of the response just before it, and a search
\* that has not yet asked holds no cursor and no result of an earlier one.
C13_CursorProtocol ==
    \A p \in Procs :
        command[p] = "resolve" =>
            /\ queries[p] # <<>> => queries[p][1] = None
            /\ Len(cursors[p]) <= Len(queries[p])
            /\ Len(queries[p]) <= Len(cursors[p]) + 1
            /\ \A i \in 2..Len(queries[p]) : queries[p][i] = cursors[p][i - 1]
            /\ pc[p] = "find" /\ queries[p] = <<>> =>
                  /\ after[p] = None
                  /\ thread_id[p] = None
                  /\ is_resolved[p] = None
                  /\ thread_data[p] = None

\* A later invocation whose search asked three times, with two different
\* cursors after the first query.
C13_Witness ==
    \E p \in Procs :
        /\ command[p] = "resolve"
        /\ nresolves >= 2
        /\ Len(queries[p]) >= 3
        /\ queries[p][2] # None
        /\ queries[p][3] # None
        /\ queries[p][3] # queries[p][2]

\* Every page query of the search so far asked for the first page: each
\* answer reported a next page and gave no end cursor.
SentBackToFirstPage(p) == \A i \in DOMAIN queries[p] : queries[p][i] = None

\* C14: the search ends whatever the server answers, the number of its page
\* queries being bounded: a search the server has sent back to the first page
\* MaxQueries times is over, with a result or with a fault, and asks no more.
C14_SearchBounded ==
    \A p \in Procs :
        /\ command[p] = "resolve"
        /\ Len(queries[p]) >= MaxQueries
        /\ SentBackToFirstPage(p)
        => pc[p] # "find"

\* ------------------------------------------------ claims: resolve, faults

\* C15: an error of a network call of resolve, in the page query of the search
\* or in the mutation call, ends the command with the message "Error updating
\* thread resolution" and exit status 1, and no mutation call follows a failed
\* search.
C15_FaultsSurfaceAsResolutionFailed ==
    \A p \in Procs :
        ResolveDone(p) /\ faults[p] # <<>> =>
            /\ console[p] = <<"Error updating thread resolution">>
            /\ exit_code[p] = 1
            /\ "search" \in Range(faults[p]) => mutations[p] = <<>>

\* The thread the mutation's response carries under the mutation's name, when
\* it carries one with its id and its flag.
confirmed_thread(response, name) ==
    IF /\ name \in DOMAIN response
       /\ "thread" \in DOMAIN response[name]
       /\ response[name].thread # None
       /\ {"id", "isResolved"} \subseteq DOMAIN response[name].thread[1]
      THEN Some(response[name].thread[1])
      ELSE None

\* C16: the thread id and the state resolve reports after a mutation are those
\* of the mutation's response; when the response carries no thread with its
\* flag, resolve reports no new state.
C16_ReportsResponseState ==
    \A p \in Procs :
        ResolveDone(p) /\ mutation_result[p] # None /\ printed_thread[p] # None =>
            LET thread == confirmed_thread(mutation_result[p][1],
                                           mutation_name(unresolve[p]))
            IN /\ thread # None
               /\ printed_thread[p][1].id = thread[1].id
               /\ printed_thread[p][1].state =
                     (IF thread[1].isResolved THEN "resolved" ELSE "unresolved")

\* ------------------------------------------------- claims: parse_repo

\* The number of slashes of the argument.
slashes == Cardinality({i \in DOMAIN repo : repo[i] = "/"})

\* The argument is an owner, one slash and a name, neither empty.
TwoNonEmptySegments ==
    \E i \in DOMAIN repo :
        /\ repo[i] = "/"
        /\ 1 < i /\ i < Len(repo)
        /\ \A k \in DOMAIN repo : repo[k] = "/" => k = i

\* C17: on an argument with exactly one slash parse_repo returns the pair
\* (owner, name) with owner + "/" + name equal to the argument; on an argument
\* with no slash or with more than one it fails with the invalid-format
\* message and exit status 1.
C17_ParseRepoRoundTrip ==
    parse_out # None =>
        /\ slashes = 1 =>
              /\ parse_out[1].returned # None
              /\ parse_out[1].returned[1][1] \o <<"/">> \o parse_out[1].returned[1][2]
                   = repo
              /\ parse_out[1].exit_code = 0
              /\ parse_out[1].console = <<>>
        /\ slashes # 1 =>
              /\ parse_out[1].returned = None
              /\ parse_out[1].exit_code = 1
              /\ parse_out[1].console = <<"Error: Invalid repo format">>

\* parse_repo returned the owner and the name of "on/o".
C17_Witness ==
    /\ parse_out # None
    /\ slashes = 1
    /\ repo = <<"o", "n", "/", "o">>
    /\ parse_out[1].returned = Some(<< <<"o", "n">>, <<"o">> >>)

\* C18: parse_repo fails on every argument that is not two non-empty segments
\* around one slash: "owner/", "/name" and "/" are rejected.
C18_EmptySegmentRejected ==
    parse_out # None /\ ~TwoNonEmptySegments =>
        /\ parse_out[1].returned = None
        /\ parse_out[1].exit_code = 1

\* ------------------------------- claims: extract_pull_number_from_url

\* The segments of the path the URL was written from.
path_segments == SelectSeq(url_segs, nonempty)

\* The places of the segments made of digits only.
numeric_places ==
    {i \in DOMAIN path_segments :
        \A k \in DOMAIN path_segments[i] :
            path_segments[i][k] \in {"0", "1", "2", "3", "4", "5", "6", "7", "8", "9"}}

\* The places of the segments "pulls".
pulls_places == {i \in DOMAIN path_segments : path_segments[i] = pulls}

RECURSIVE decimal(_)
\* The number a segment of digits writes, read from its first digit.
decimal(digits) ==
    IF digits = <<>> THEN 0
    ELSE digit_value(digits[1]) * 10 ^ (Len(digits) - 1) + decimal(Tail(digits))

\* The reference: the number after the first "pulls" when that segment is a
\* number, otherwise the number closest to the end, otherwise none.
reference_pull_number ==
    IF pulls_places # {}
       /\ (CHOOSE i \in pulls_places : \A k \in pulls_places : i <= k) + 1
            \in numeric_places
      THEN Some(decimal(path_segments[
               (CHOOSE i \in pulls_places : \A k \in pulls_places : i <= k) + 1]))
      ELSE IF numeric_places # {}
             THEN Some(decimal(path_segments[
                      CHOOSE i \in numeric_places : \A k \in numeric_places : k <= i]))
             ELSE None

\* C19: on every URL extract_pull_number_from_url returns what the reference
\* gives for the segments of its path: the number right after the first
\* "pulls" when there is one, even with numbers after it, otherwise the last
\* number of the path, otherwise nothing.
C19_ExtractEqualsReference ==
    pull_out # None => pull_out[1] = reference_pull_number

\* The function took 42 from a path with "pulls", 42 and then another number.
C19_Witness ==
    /\ pull_out # None
    /\ Len(path_segments) = 4
    /\ path_segments[2] = pulls
    /\ path_segments[3] = <<"4", "2">>
    /\ path_segments[4] = <<"9">>
    /\ pull_out[1] = Some(42)

\* ------------------------------------------------------ claims: reply

\* The URL of the record that is looked at: the pull request's when the record
\* has one, otherwise the review's, otherwise none.
inspected_url(record) ==
    IF /\ "pull_request_url" \in DOMAIN record
       /\ record["pull_request_url"] \notin {None, Some(<<>>)}
      THEN record["pull_request_url"]
      ELSE IF /\ "pull_request_review_url" \in DOMAIN record
              /\ record["pull_request_review_url"] \notin {None, Some(<<>>)}
             THEN record["pull_request_review_url"]
             ELSE None

\* The numbers the segments of a URL's path write.
path_numbers(text) ==
    LET parts == split(urlparse_path(text), "/")
    IN {decimal(parts[i]) : i \in {k \in DOMAIN parts :
                                     /\ parts[k] # <<>>
                                     /\ \A j \in DOMAIN parts[k] :
                                          parts[k][j] \in Range(DigitChars)}}

\* The record names no pull request: it has neither URL, or the URL looked at
\* has no number in its path.
Unresolvable(record) ==
    \/ inspected_url(record) = None
    \/ path_numbers(inspected_url(record)[1]) = {}

\* C20: when the record of the comment has neither URL, or the URL looked at
\* has no number in its path, get_pull_number_from_comment fails with the
\* could-not-determine message and exit status 1; it returns no number the
\* URL does not write, and reply then makes no call that posts.
C20_UnresolvableCommentFails ==
    \A p \in Procs :
        command[p] = "reply" /\ comment[p] # None =>
            /\ Unresolvable(comment[p][1]) =>
                  /\ pc[p] = "done"
                  /\ exit_code[p] = 1
                  /\ "Error: Could not determine PR number" \in Range(console[p])
                  /\ pull_number[p] = None
                  /\ reply_calls[p] = <<>>
            /\ pull_number[p] # None =>
                  /\ inspected_url(comment[p][1]) # None
                  /\ pull_number[p][1] \in path_numbers(inspected_url(comment[p][1])[1])
            /\ \A i \in DOMAIN reply_calls[p] :
                  Some(reply_calls[p][i].pull_number) = pull_number[p]

\* reply ended with the error on a record whose only URL has a number in its
\* query and none in its path, after a reply was posted by an earlier
\* invocation, and posted nothing itself.
C20_Witness ==
    \E p \in Procs :
        /\ command[p] = "reply"
        /\ pc[p] = "done"
        /\ comment[p] = Some(CommentRecord(Some(None), Some(Some(QueryUrl))))
        /\ exit_code[p] = 1
        /\ reply_calls[p] = <<>>
        /\ Len(replies) = 1

\* The record has the field as a non-empty string.
HasUrl(record, field) ==
    field \in DOMAIN record /\ record[field] \notin {None, Some(<<>>)}

\* C21: the pull number is read off pull_request_url alone whenever the record
\* has it as a non-empty string, also when it gives no number; off
\* pull_request_review_url only when pull_request_url is absent or empty; and
\* the lookup reads the comment record from the network exactly once.
C21_PrefersPullRequestUrl ==
    \A p \in Procs :
        command[p] = "reply" =>
            /\ pc[p] = "get_pull_number" => fetches[p] = <<>>
            /\ pc[p] # "get_pull_number" => fetches[p] = <<reply_to[p][1]>>
            /\ comment[p] # None =>
                 pull_number[p] =
                    IF HasUrl(comment[p][1], "pull_request_url")
                      THEN extract_pull_number_from_url(
                               comment[p][1]["pull_request_url"])
                    ELSE IF HasUrl(comment[p][1], "pull_request_review_url")
                      THEN extract_pull_number_from_url(
                               comment[p][1]["pull_request_review_url"])
                    ELSE None

\* The record's pull_request_url gives no number and its
\* pull_request_review_url gives one: the lookup ended with no number.
C21_Witness ==
    \E p \in Procs :
        /\ command[p] = "reply"
        /\ pc[p] = "done"
        /\ comment[p] = Some(CommentRecord(Some(Some(WordsUrl)), Some(Some(ReviewUrl))))
        /\ pull_number[p] = None
        /\ exit_code[p] = 1
        /\ Len(fetches[p]) = 1

\* ------------------------------------------- claims: resolve, the modes

\* The caller gave a thread id and no comment id.
ThreadIdMode(p) ==
    command[p] = "resolve" /\ comment_id[p] = None /\ thread_arg[p] # None

\* The caller gave a comment id and no thread id.
CommentIdMode(p) ==
    command[p] = "resolve" /\ comment_id[p] # None /\ thread_arg[p] = None

\* C22: given a thread id, resolve asks for no page of threads, knows no prior
\* state, never ends as already in the requested state, and ends having
\* issued exactly one mutation call, on the thread id it was given, whatever
\* the state of the thread on the platform.
C22_ThreadIdModeAlwaysMutates ==
    \A p \in Procs :
        ThreadIdMode(p) =>
            /\ queries[p] = <<>>
            /\ is_resolved[p] = None
            /\ pc[p] \notin {"find", "found"}
            /\ "Thread is already resolved" \notin Range(console[p])
            /\ "Thread is already unresolved" \notin Range(console[p])
            /\ Len(mutations[p]) <= 1
            /\ pc[p] = "done" =>
                 mutations[p] = <<[name |-> IF unresolve[p]
                                              THEN "unresolveReviewThread"
                                              ELSE "resolveReviewThread",
                                   threadId |-> thread_arg[p][1]]>>

\* A resolve of thread T1 by its id, right after a resolve by comment 12 of T1
\* ended without an error: the thread is resolved already, and the mutation
\* call is issued all the same.
C22_Witness ==
    \E p \in Procs :
        /\ ThreadIdMode(p)
        /\ pc[p] = "done"
        /\ thread_arg[p] = Some("T1")
        /\ ~unresolve[p]
        /\ last_resolve = Some([comment_id |-> 12, unresolve |-> FALSE])
        /\ \E i \in DOMAIN threads : threads[i].id = "T1" /\ threads[i].isResolved
        /\ Len(mutations[p]) = 1
        /\ exit_code[p] = 0

\* ------------------------------------------------ claims: post, reports

\* C23: post ends with the failure report, "Review file preserved for retry"
\* and exit status 1, only when its create_review call did not return: an
\* invocation whose call returned ends without it, whatever the steps after
\* the call do.
C23_FailureReportOnlyOnFailedCall ==
    \A p \in Procs :
        PostDone(p) /\ CallReturned(p) =>
            /\ exit_code[p] = 0
            /\ "Review file preserved for retry" \notin Range(console[p])
            /\ "Error posting review" \notin Range(console[p])

\* ---------------------------------------------- claims: post, concurrent

\* The reviews on the platform that invocation p created.
reviews_of(p) == {i \in DOMAIN reviews : reviews[i].inv = inv[p]}

\* C24: post takes no lock on the draft. A process may enter post, and an
\* invocation that has read the draft may issue its create_review, whatever
\* the other processes are doing; and every call that returned created a
\* review of its own, so two invocations that read one draft before either
\* deleted it leave two reviews of that draft.
C24_NoExclusionBetweenPosts ==
    \A p \in Procs :
        /\ pc[p] = "idle" /\ nposts < MaxPosts => ENABLED PostBegin(p)
        /\ pc[p] = "create_review" => ENABLED create_review_returned(p)
        /\ command[p] = "post" =>
              Cardinality(reviews_of(p)) =
                  Cardinality({i \in DOMAIN calls[p] : calls[p][i].ok})

\* Two invocations started on the same draft, both read it and both had
\* create_review return before either deleted the file: the platform holds
\* two reviews with the same arguments.
C24_Witness ==
    \E p, q \in Procs :
        /\ p # q
        /\ command[p] = "post" /\ command[q] = "post"
        /\ pc[p] = "unlink" /\ pc[q] = "unlink"
        /\ review_file # None
        /\ start_file[p] = review_file /\ start_file[q] = review_file
        /\ Len(reviews) = 2
        /\ reviews[1].args = reviews[2].args
        /\ reviews[1].inv # reviews[2].inv

\* ------------------------------------------- claims: resolve, postcondition

\* The invocation before p's ended without an error, in comment-id mode, with
\* p's comment id and p's target.
SecondIdentical(p) ==
    /\ CommentIdMode(p)
    /\ last_resolve = Some([comment_id |-> comment_id[p][1],
                            unresolve |-> unresolve[p]])

\* C25: with invocations one after another and an honest platform, a resolve
\* in comment-id mode that ends without an error, by the short-circuit or
\* after its mutation, leaves the flag of the comment's thread equal to the
\* requested target; and an invocation that repeats the one before it, which
\* ended so, issues no mutation call: when its search is answered it ends by
\* the short-circuit.
C25_ResolvePostcondition ==
    \A p \in Procs :
        /\ ResolveDone(p) /\ CommentIdMode(p) /\ exit_code[p] = 0 =>
              /\ holders(comment_id[p][1]) # {}
              /\ threads[first_holder(comment_id[p][1])].isResolved
                    = TargetResolved(p)
        /\ SecondIdentical(p) =>
              /\ mutations[p] = <<>>
              /\ pc[p] # "mutate"
              /\ pc[p] = "done" /\ faults[p] = <<>> =>
                    /\ exit_code[p] = 0
                    /\ console[p] = IF unresolve[p]
                                      THEN <<"Thread is already unresolved">>
                                      ELSE <<"Thread is already resolved">>

\* A second resolve of comment 12, after one that ended without an error,
\* ended by the short-circuit.
C25_Witness ==
    \E p \in Procs :
        /\ ResolveDone(p)
        /\ SecondIdentical(p)
        /\ comment_id[p] = Some(12)
        /\ ~unresolve[p]
        /\ nresolves = 2
        /\ is_resolved[p] = Some(TRUE)
        /\ mutations[p] = <<>>
        /\ exit_code[p] = 0

\* ------------------------------------------- claims: search, completeness

\* The threads of the platform that the comment belongs to.
owners(target) == {i \in DOMAIN threads : target \in Range(threads[i].comments)}

\* C26: for every comment that belongs to a thread of the pull request, the
\* search returns the id of that thread, also when the comment is not among
\* the first member comments of the thread that a page carries.
C26_SearchComplete ==
    \A p \in Procs :
        SearchReturned(p) /\ owners(comment_id[p][1]) # {} =>
            \E i \in owners(comment_id[p][1]) : thread_id[p] = Some(threads[i].id)

\* ------------------------------------------- claims: resolve, no thread id

\* C27: in comment-id mode, when the search returns no thread id (no thread
\* holds the comment, or the thread that holds it has no id or an empty one),
\* resolve ends with "Could not find a review thread" and exit status 1, and
\* issues no mutation call.
C27_NoThreadIdFails ==
    \A p \in Procs :
        ( /\ CommentIdMode(p)
          /\ pc[p] \in {"found", "check_state", "mutate", "done"}
          /\ faults[p] = <<>>
          /\ thread_id[p] \in {None, Some("")} ) =>
            /\ pc[p] \in {"found", "done"}
            /\ mutations[p] = <<>>
            /\ pc[p] = "done" =>
                 /\ exit_code[p] = 1
                 /\ console[p] = <<"Error: Could not find a review thread">>

\* The search returned the empty id of the thread that holds comment 41.
C27_Witness ==
    \E p \in Procs :
        /\ ResolveDone(p) /\ CommentIdMode(p)
        /\ comment_id[p] = Some(41)
        /\ thread_id[p] = Some("")
        /\ faults[p] = <<>>
        /\ exit_code[p] = 1

\* ---------------------------------------------- claims: post, invalid JSON

\* C28: when the draft file exists and does not parse as JSON, post ends with
\* "Invalid JSON in review file" and exit status 1, issues no create_review
\* call, and leaves the file as it was.
C28_InvalidJsonRejected ==
    \A p \in Procs :
        command[p] = "post" /\ start_file[p] = Some(GarbageDraft) =>
            /\ calls[p] = <<>>
            /\ reviews_of(p) = {}
            /\ review_file = start_file[p]
            /\ ~unlinked[p]
            /\ pc[p] \in {"exists", "load", "done"}
            /\ pc[p] = "done" =>
                 /\ exit_code[p] = 1
                 /\ console[p] = <<"Error: Invalid JSON in review file">>

C28_Witness ==
    \E p \in Procs :
        /\ PostDone(p)
        /\ start_file[p] = Some(GarbageDraft)
        /\ review_file = Some(GarbageDraft)
        /\ exit_code[p] = 1

\* ------------------------------------------- claims: the two copies agree

\* What the copy's get_pull_number_from_comment does on the record fetched.
CopyOfLookup(p) == creator_get_pull_number_from_comment(comment[p][1])

\* What the copy's search does on the response last received.
CopyOfSearch(p) ==
    creator_find_review_thread_id(thread_data[p][1], comment_id[p][1])

\* What the copy's resolve does with the options and the pair of the search.
CopyOfResolve(p) ==
    creator_resolve(comment_id[p], thread_arg[p], unresolve[p],
                    thread_id[p], is_resolved[p])

\* C29: on the same inputs and the same answers of the server, the functions
\* of pr-review/gh_pr.py and their copies in pr-creator/gh_pr.py
\* (extract_pull_number_from_url, get_pull_number_from_comment,
\* find_review_thread_id, resolve) issue the same calls and end with the same
\* result or the same error.
C29_CopiesAgree ==
    \A p \in Procs :
        /\ command[p] = "reply" /\ comment[p] # None =>
              /\ fetches[p] = <<reply_to[p][1]>>
              /\ pull_number[p] = CopyOfLookup(p).pull_number
              /\ \A f \in DOMAIN comment[p][1] :
                    extract_pull_number_from_url(comment[p][1][f])
                        = creator_extract_pull_number_from_url(comment[p][1][f])
              /\ CopyOfLookup(p).exit_code = 1 =>
                    /\ pc[p] = "done"
                    /\ exit_code[p] = 1
                    /\ console[p] = CopyOfLookup(p).console \o <<"Error posting reply">>
              /\ CopyOfLookup(p).exit_code = 0 => pc[p] # "get_pull_number"
        /\ command[p] = "resolve" /\ thread_data[p] # None /\ faults[p] = <<>> =>
              IF CopyOfSearch(p).returned
                THEN /\ pc[p] # "find"
                     /\ thread_id[p] = CopyOfSearch(p).thread_id
                     /\ is_resolved[p] = CopyOfSearch(p).is_resolved
                ELSE /\ pc[p] = "find"
                     /\ after[p] = CopyOfSearch(p).after
        /\ command[p] = "resolve" /\ thread_data[p] = None =>
              /\ after[p] = None
              /\ Len(queries[p]) <= 1
        /\ command[p] = "resolve" => \A i \in DOMAIN queries[p] :
              queries[p][i] = IF i = 1 THEN None ELSE cursors[p][i - 1]
        /\ ResolveDone(p) /\ "search" \notin Range(faults[p]) =>
              IF CopyOfResolve(p).ended
                THEN /\ console[p] = CopyOfResolve(p).console
                     /\ exit_code[p] = CopyOfResolve(p).exit_code
                     /\ mutations[p] = <<>>
              ELSE /\ mutations[p] = CopyOfResolve(p).mutations
                   /\ IF mutation_result[p] = None
                        THEN /\ console[p] = <<"Error updating thread resolution">>
                             /\ exit_code[p] = 1
                        ELSE LET report ==
                                   creator_resolve_report(
                                       unresolve[p],
                                       CopyOfResolve(p).mutations[1].threadId,
                                       mutation_result[p][1])
                             IN /\ console[p] = report.console
                                /\ exit_code[p] = report.exit_code
                                /\ printed_thread[p] = report.printed

\* A resolve by comment id that found its thread in the second response of a
\* server bound to no protocol and reported the state of the mutation's
\* response.
C29_Witness ==
    \E p \in Procs :
        /\ ResolveDone(p)
        /\ CommentIdMode(p)
        /\ Len(queries[p]) >= 2
        /\ ~CopyOfResolve(p).ended
        /\ mutation_result[p] # None
        /\ printed_thread[p] # None
        /\ exit_code[p] = 0
        /\ server = "arbitrary"

\* ------------------------------------------------- claims: init_review

\* The file is a draft written by init_review.
WrittenByInitReview(file) ==
    file # None /\ file[1].kind = "json" /\ "owner" \in DOMAIN file[1].data

\* C30: a draft written by init_review has a non-empty commit_id, the event
\* COMMENT and no comments, and passes the validations of post; init_review
\* writes no file when it gets no head SHA; and a post that starts on a draft
\* written by init_review reaches its create_review call.
C30_InitReviewDraftPassesPost ==
    /\ WrittenByInitReview(review_file) =>
          /\ missing(review_file[1].data) = {}
          /\ review_file[1].data["commit_id"] # ""
          /\ review_file[1].data["event"] = "COMMENT"
          /\ review_file[1].data["event"] \in valid_events
          /\ review_file[1].data["comments"] = <<>>
    /\ \A p \in Procs :
          /\ command[p] = "init_review" /\ pc[p] = "done" =>
                IF exit_code[p] = 0
                  THEN /\ WrittenByInitReview(review_file)
                       /\ review_file = Some(json_dumps(review_data[p][1]))
                       /\ review_file[1].data["pr_number"] = pr_number[p]
                  ELSE review_file = start_file[p]
          /\ command[p] = "post" /\ WrittenByInitReview(start_file[p]) =>
                /\ pc[p] = "done" => calls[p] # <<>>
                /\ "Error: Missing required fields" \notin Range(console[p])
                /\ "Error: Invalid event" \notin Range(console[p])
                /\ "Error: Invalid JSON in review file" \notin Range(console[p])
                /\ "Error: Review file not found" \notin Range(console[p])

\* A post that started on the draft init_review wrote over a file that did
\* not parse, and had its create_review call return.
C30_Witness ==
    \E p \in Procs :
        /\ PostDone(p)
        /\ WrittenByInitReview(start_file[p])
        /\ CallReturned(p)
        /\ calls[p][1].args.event = "COMMENT"
        /\ calls[p][1].args.comments = <<>>
        /\ calls[p][1].args.commit_id = "abc123"

====
